---- MODULE Spec2Model ----
(***************************************************************************)
(* Verification model of the CTMRG convergence monitors, the environment   *)
(* store/initializer of the abelian variants and the RDM post-processing   *)
(* of peps-torch.                                                          *)
(*                                                                         *)
(* Real-valued quantities (energies, singular values, distances,           *)
(* tolerances) are carried on an integer grid; |a-b| and < keep their      *)
(* meaning on the grid.  Python values are tagged records:                 *)
(*   None            [tag |-> "None"]                                      *)
(*   list            [tag |-> "list", items |-> <<...>>]                   *)
(*   {"log","rdm"}   [tag |-> "dict", log, hasRdm, rdm]                    *)
(*   [ite, spectra]  [tag |-> "sv", ite, spec]                             *)
(***************************************************************************)
EXTENDS Integers, Sequences, FiniteSets, TLC

VARIABLES
    monitor,    \* which convergence functional the driver defined
    ctm_args,   \* cfg.ctm_args: ctm_max_iter, ctm_conv_tol
    chi,        \* env.chi / args.chi
    mode,       \* "direct": the functional is called by hand; "run": by ctmrg.run
    hist0,      \* the history handed to the first call (None or [])
    history,    \* the accumulator threaded through the calls
    lastRet,    \* what the last call of the functional did
    lastIn,     \* e_curr of the last call (0 for the spectrum-based functionals)
    calls,      \* number of calls of the functional so far
    pc,         \* position of ctmrg.run
    sweeps,     \* sweeps completed by ctmrg.run
    state,      \* the wavefunction: its unit cell lX x lY
    envA,       \* an ENV_ABELIAN object: chi, C, T (or NoEnv)
    envC4,      \* an ENV_C4V_ABELIAN object: chi, keyC, keyT, C, T (or NoEnv)
    lastOp,     \* the last environment operation and how it ended
    version,    \* torch's _version of every tensor of env.C, env.T, state.sites
    lastRdm,    \* the last rdm routine called and what it did
    lastCast,   \* the last trace given to _cast_to_real and what came back
    store,      \* an ENV_ABELIAN, the dictionaries behind it and its snapshots
    opt,        \* the optimization driver: its environments, epochs and printed lines
    call        \* one call of a pure function: its arguments and what it returned

monVars == <<monitor, chi, mode, hist0, history, lastRet, lastIn, calls, pc, sweeps>>

envVars == <<state, envA, envC4, lastOp>>

rdmVars == <<version, lastRdm, lastCast, store, opt, call>>

vars == <<monitor, ctm_args, chi, mode, hist0, history, lastRet, lastIn, calls, pc, sweeps,
          state, envA, envC4, lastOp, version, lastRdm, lastCast, store, opt, call>>

----------------------------------------------------------------------------
(* Bounds *)
MaxIter == 3
MaxTol == 2
MaxEnergy == 2
MaxSpec == 1
MaxChi == 1
MaxCalls == 3
MaxL == 2
MaxEig == 2
MaxVerbosity == 3

MaxD == 2

MaxEnvDim == 5

MaxObs == 2

MaxEpoch == 2

MaxCoord == 3

MaxSvd == 3

MaxSV == 3

MaxGap == 2

\* grid points per unit of energy
Res == 2

(* Program constants *)
Inf == 1000
SkipLen == 8
PartialTolFactor == 2
SVTolFactor == 100

----------------------------------------------------------------------------
(* Python helpers *)
Abs(x) == IF x < 0 THEN -x ELSE x

MaxOf(S) == CHOOSE m \in S : \A y \in S : y <= m

IsPrefix(s, t) == Len(s) <= Len(t) /\ \A i \in 1..Len(s) : t[i] = s[i]

None == [tag |-> "None"]

PyList(s) == [tag |-> "list", items |-> s]

\* python truth value of `not history`
Falsy(h) == h.tag = "None" \/ (h.tag = "list" /\ h.items = <<>>)

NoRet == [kind |-> "none", exc |-> "none", conv |-> FALSE, hist |-> None]

Returned(conv, h) == [kind |-> "pair", exc |-> "none", conv |-> conv, hist |-> h]

ReturnedBool(conv, h) == [kind |-> "bool", exc |-> "none", conv |-> conv, hist |-> h]

Raised(e, h) == [kind |-> "raise", exc |-> e, conv |-> FALSE, hist |-> h]

----------------------------------------------------------------------------
(* The convergence functionals.  The first argument is what the functional *)
(* evaluates on (state, env) in this call.                                 *)

\* the common tail of the scalar monitors
ScalarTest(h, tol, max_iter) ==
    (Len(h) > 1 /\ Abs(h[Len(h)] - h[Len(h) - 1]) < tol) \/ Len(h) >= max_iter

ctmrg_conv_energy_SU3(e_curr, hist, args) ==
    LET h0 == IF Falsy(hist) THEN <<>> ELSE hist.items
        h1 == Append(h0, e_curr)
    IN  IF ScalarTest(h1, args.ctm_conv_tol, args.ctm_max_iter)
        THEN Returned(TRUE, PyList(h1))
        ELSE Returned(FALSE, PyList(h1))

\* a ceiling test that is off by one
ctmrg_conv_f_Energy_late(e_curr, hist, args) ==
    LET h0 == IF Falsy(hist) THEN <<>> ELSE hist.items
        h1 == Append(h0, e_curr)
        n == Len(h1)
    IN  IF (n > 1 /\ Abs(h1[n] - h1[n - 1]) < args.ctm_conv_tol) \/ n > args.ctm_max_iter
        THEN Returned(TRUE, PyList(h1))
        ELSE Returned(FALSE, PyList(h1))

ctmrg_conv_f_Energy(e_curr, hist, args) ==
    LET h0 == IF Falsy(hist) THEN <<>> ELSE hist.items
        h1 == Append(h0, e_curr)
    IN  IF ScalarTest(h1, args.ctm_conv_tol, args.ctm_max_iter)
        THEN Returned(TRUE, PyList(h1))
        ELSE Returned(FALSE, PyList(h1))

ctmrg_conv_f_Partial_energy(e_curr, hist, args) ==
    LET h0 == IF Falsy(hist) THEN <<>> ELSE hist.items
        h1 == IF Len(h0) > SkipLen THEN Append(h0, e_curr)
                                   ELSE Append(h0, (Len(h0) + 1) * Res)
    IN  IF ScalarTest(h1, args.ctm_conv_tol * PartialTolFactor, args.ctm_max_iter)
        THEN Returned(TRUE, PyList(h1))
        ELSE Returned(FALSE, PyList(h1))

\* no None guard, no ceiling branch, returns the bare flag
ctmrg_conv_energy_j1j2(e_curr, hist, args) ==
    IF hist.tag = "None" THEN Raised("AttributeError", hist)
    ELSE LET h1 == Append(hist.items, e_curr)
         IN  IF Len(h1) > 1 /\ Abs(h1[Len(h1)] - h1[Len(h1) - 1]) < args.ctm_conv_tol
             THEN ReturnedBool(TRUE, PyList(h1))
             ELSE ReturnedBool(FALSE, PyList(h1))

CornerDirs == { <<-1, -1>>, <<1, -1>>, <<1, 1>>, <<-1, 1>> }

\* new: the leading env.chi singular values of C(-1,-1), C(1,-1), C(1,-1), C(1,1)
NewSpectrum(s, x) ==
    [i \in 1..(4 * x) |->
        IF i <= x THEN s[<<-1, -1>>][i]
        ELSE IF i <= 2 * x THEN s[<<1, -1>>][i - x]
        ELSE IF i <= 3 * x THEN s[<<1, -1>>][i - 2 * x]
        ELSE s[<<1, 1>>][i - 3 * x]]

\* the newest distance stored over the previous one instead of appended
ctmrg_conv_C_overwrite(s, x, hist, args) ==
    LET h0 == IF Falsy(hist) THEN <<>> ELSE hist.items
        old == IF Len(h0) > 0 THEN SubSeq(h0, 1, 4 * x) ELSE <<>>
        new == NewSpectrum(s, x)
        diff == IF Len(h0) > 0
                THEN MaxOf({0} \cup {Abs(old[i] - new[i]) : i \in 1..(4 * x)})
                ELSE 0
        h2 == IF Len(h0) > 0
              THEN [i \in 1..Len(h0) |-> IF i <= 4 * x THEN new[i]
                                         ELSE IF i = Len(h0) THEN diff ELSE h0[i]]
              ELSE Append(new, diff)
        tail == SubSeq(h2, 4 * x + 1, Len(h2))
    IN  IF (Len(tail) > 1 /\ diff < args.ctm_conv_tol) \/ Len(tail) >= args.ctm_max_iter
        THEN Returned(TRUE, PyList(h2))
        ELSE Returned(FALSE, PyList(h2))

ctmrg_conv_C(s, x, hist, args) ==
    LET h0 == IF Falsy(hist) THEN <<>> ELSE hist.items
        old == IF Len(h0) > 0 THEN SubSeq(h0, 1, 4 * x) ELSE <<>>
        new == NewSpectrum(s, x)
        diff == IF Len(h0) > 0
                THEN MaxOf({0} \cup {Abs(old[i] - new[i]) : i \in 1..(4 * x)})
                ELSE 0
        h1 == IF Len(h0) > 0
              THEN [i \in 1..Len(h0) |-> IF i <= 4 * x THEN new[i] ELSE h0[i]]
              ELSE new
        h2 == Append(h1, diff)
        tail == SubSeq(h2, 4 * x + 1, Len(h2))
    IN  IF (Len(tail) > 1 /\ diff < args.ctm_conv_tol) \/ Len(tail) >= args.ctm_max_iter
        THEN Returned(TRUE, PyList(h2))
        ELSE Returned(FALSE, PyList(h2))

ctmrg_conv_rdm2x1(rdm2x1, hist, args) ==
    LET h0 == IF Falsy(hist)
              THEN [tag |-> "dict", log |-> <<>>, hasRdm |-> FALSE, rdm |-> 0]
              ELSE hist
        dist == IF Len(h0.log) > 1 THEN Abs(rdm2x1 - h0.rdm) ELSE Inf
        h1 == [h0 EXCEPT !.rdm = rdm2x1, !.hasRdm = TRUE, !.log = Append(@, dist)]
    IN  IF dist < args.ctm_conv_tol THEN Returned(TRUE, h1)
        ELSE IF Len(h1.log) >= args.ctm_max_iter THEN Returned(FALSE, h1)
        ELSE Returned(FALSE, h1)

ctmrg_conv_f_SingularValue(spect_new, hist, args) ==
    LET h0 == IF Falsy(hist) THEN [tag |-> "sv", ite |-> 1, spec |-> <<>>] ELSE hist
        assigned == Len(h0.spec) = 4
        spec_ers == [i \in 1..4 |-> Abs(spect_new[i] - h0.spec[i])]
    IN  IF (assigned /\ MaxOf({spec_ers[i] : i \in 1..4}) < args.ctm_conv_tol * SVTolFactor)
           \/ h0.ite >= args.ctm_max_iter
        THEN \* log.info reads spec_ers
             IF assigned THEN Returned(TRUE, h0)
                         ELSE Raised("UnboundLocalError", hist)
        ELSE Returned(FALSE, [h0 EXCEPT !.spec = spect_new, !.ite = @ + 1])

----------------------------------------------------------------------------
(* The environment store and its initializer (abelian variants).           *)
(* An on-site tensor has legs 0 (physical), 1 (up), 2 (left), 3 (down),     *)
(* 4 (right).  An environment tensor built by the initializer is recorded  *)
(* by the site it was built from, the legs traced against the conjugate    *)
(* and the open legs, each fused with its conjugate, in their final order. *)

NoEnv == [exists |-> FALSE]

NoOp == [op |-> "none", method |-> "none", withState |-> FALSE, withSettings |-> FALSE,
         init |-> FALSE, exc |-> "none"]

\* the storage of a tensor held by env.C, env.T or state.sites, or made in a call
StorageOf(kind, site, dir) == <<kind, site, dir>>

NoStorage == StorageOf("none", <<0, 0>>, <<0, 0>>)

NoVersions == [k \in {} |-> 0]

\* a scalar tensor: real part, imaginary part, and whether its dtype is complex
Scalar(re, im, complex) == [re |-> re, im |-> im, complex |-> complex]

\* _cast_to_real not called yet
NoCast == [called |-> FALSE, t |-> Scalar(0, 0, FALSE), ret |-> Scalar(0, 0, FALSE),
           warned |-> FALSE, exc |-> "none"]

\* no optimization run
NoOpt == [pc |-> "none"]

\* no call of a pure function
NoCall == [fn |-> "none"]

\* an environment as the places of its dictionaries env.C and env.T in the heap
Handle(x, c, t) == [exists |-> TRUE, chi |-> x, C |-> c, T |-> t]

NoHandle == [exists |-> FALSE, chi |-> 0, C |-> 0, T |-> 0]

NoStore == [D |-> <<>>, dicts |-> <<>>, env |-> NoHandle, out |-> NoHandle, op |-> "none",
            via |-> "none", target |-> "none", exc |-> "none"]

\* no rdm routine called yet
NoRdm == [routine |-> "none", coord |-> <<0, 0>>, sym_pos_def |-> FALSE, operator |-> FALSE,
          force_cpu |-> FALSE, verbosity |-> 0, shares |-> FALSE, is_cpu |-> FALSE,
          eig |-> <<0, 0>>, exc |-> "none", written |-> {}, foreign |-> {}, reads |-> {},
          out |-> [eig |-> <<0, 0>>, herm |-> FALSE, normalized |-> FALSE, den |-> 1,
                   steps |-> <<>>, legs |-> <<>>]]

PyNone == "<None>"

\* state=None
NoState == [lX |-> 0, lY |-> 0]

InitMethods == {"CONST", "RANDOM", "CTMRG", "CTMRG_OBC"}

\* what a caller may pass as init_method
MethodArgs == InitMethods \cup {"BOGUS", "", PyNone}

EdgeDirs == { <<0, -1>>, <<-1, 0>>, <<0, 1>>, <<1, 0>> }

Sites(st) == (0..(st.lX - 1)) \X (0..(st.lY - 1))

vertexToSite(st, c) == <<c[1] % st.lX, c[2] % st.lY>>

Tensor(site, traced, open) == [site |-> site, traced |-> traced, open |-> open]

\* the lower corners with each other's axes
CornerTraced_lower_swapped(vec) ==
    CASE vec = <<-1, -1>> -> {0, 1, 2}
      [] vec = <<1, -1>> -> {0, 1, 4}
      [] vec = <<1, 1>> -> {0, 2, 3}
      [] OTHER -> {0, 3, 4}

\* tensordot axes of the four corners
CornerTraced(vec) ==
    CASE vec = <<-1, -1>> -> {0, 1, 2}
      [] vec = <<1, -1>> -> {0, 1, 4}
      [] vec = <<1, 1>> -> {0, 3, 4}
      [] OTHER -> {0, 2, 3}

\* the lower edge traced over the upper leg
EdgeTraced_up(vec) ==
    CASE vec = <<0, -1>> -> {0, 1}
      [] vec = <<-1, 0>> -> {0, 2}
      [] vec = <<0, 1>> -> {0, 1}
      [] OTHER -> {0, 4}

\* tensordot axes of the four edges
EdgeTraced(vec) ==
    CASE vec = <<0, -1>> -> {0, 1}
      [] vec = <<-1, 0>> -> {0, 2}
      [] vec = <<0, 1>> -> {0, 3}
      [] OTHER -> {0, 4}

\* the legs tensordot leaves, in increasing order
RECURSIVE OpenLegs(_, _)
OpenLegs(traced, from) ==
    IF from > 4 THEN <<>>
    ELSE IF from \in traced THEN OpenLegs(traced, from + 1)
    ELSE <<from>> \o OpenLegs(traced, from + 1)

init_const(env) == [env |-> env, exc |-> "NotImplementedError"]

init_random(env) == [env |-> env, exc |-> "NotImplementedError"]

init_from_ipeps_obc(st, env) == [env |-> env, exc |-> "NotImplementedError"]

\* a corner loop that leaves out the last corner
init_from_ipeps_pbc_skip(st, env) ==
    LET newC == [k \in Sites(st) \X (CornerDirs \ { <<-1, 1>> }) |->
                    Tensor(vertexToSite(st, <<k[1][1] + k[2][1], k[1][2] + k[2][2]>>),
                           CornerTraced(k[2]), OpenLegs(CornerTraced(k[2]), 0))]
        newT == [k \in Sites(st) \X EdgeDirs |->
                    Tensor(vertexToSite(st, <<k[1][1] + k[2][1], k[1][2] + k[2][2]>>),
                           EdgeTraced(k[2]), OpenLegs(EdgeTraced(k[2]), 0))]
    IN  [env |-> [env EXCEPT !.C = newC @@ @, !.T = newT @@ @], exc |-> "none"]

init_from_ipeps_pbc(st, env) ==
    LET newC == [k \in Sites(st) \X CornerDirs |->
                    Tensor(vertexToSite(st, <<k[1][1] + k[2][1], k[1][2] + k[2][2]>>),
                           CornerTraced(k[2]), OpenLegs(CornerTraced(k[2]), 0))]
        newT == [k \in Sites(st) \X EdgeDirs |->
                    Tensor(vertexToSite(st, <<k[1][1] + k[2][1], k[1][2] + k[2][2]>>),
                           EdgeTraced(k[2]), OpenLegs(EdgeTraced(k[2]), 0))]
    IN  [env |-> [env EXCEPT !.C = newC @@ @, !.T = newT @@ @], exc |-> "none"]

\* `if not init_method: init_method= ctm_args.ctm_env_init_type`
EffectiveMethod(init_method, args) ==
    IF init_method = PyNone \/ init_method = "" THEN args.ctm_env_init_type ELSE init_method

\* an else branch that falls back to the CTMRG initialization
init_env_lenient(st, env, init_method, args) ==
    LET m == EffectiveMethod(init_method, args)
    IN  CASE m = "CONST" -> init_const(env)
          [] m = "RANDOM" -> init_random(env)
          [] m = "CTMRG_OBC" -> init_from_ipeps_obc(st, env)
          [] OTHER -> init_from_ipeps_pbc(st, env)

init_env(st, env, init_method, args) ==
    LET m == EffectiveMethod(init_method, args)
    IN  CASE m = "CONST" -> init_const(env)
          [] m = "RANDOM" -> init_random(env)
          [] m = "CTMRG" -> init_from_ipeps_pbc(st, env)
          [] m = "CTMRG_OBC" -> init_from_ipeps_obc(st, env)
          [] OTHER -> [env |-> env, exc |-> "ValueError"]

\* a constructor that hands every method to init_env once a state is there
ENV_ABELIAN_any_method(x, st, settings, init, init_method, args) ==
    IF st = NoState /\ settings = PyNone THEN [env |-> NoEnv, exc |-> "RuntimeError"]
    ELSE LET self == [exists |-> TRUE, chi |-> x, C |-> <<>>, T |-> <<>>]
             m == EffectiveMethod(init_method, args)
         IN  IF init \/ ~(init_method = PyNone \/ init_method = "")
             THEN IF st # NoState
                  THEN init_env(st, self, m, args)
                  ELSE [env |-> NoEnv, exc |-> "RuntimeError"]
             ELSE [env |-> self, exc |-> "none"]

\* ENV_ABELIAN.__init__; state=None is NoState, settings=None is PyNone
ENV_ABELIAN(x, st, settings, init, init_method, args) ==
    IF st = NoState /\ settings = PyNone THEN [env |-> NoEnv, exc |-> "RuntimeError"]
    ELSE LET self == [exists |-> TRUE, chi |-> x, C |-> <<>>, T |-> <<>>]
             m == EffectiveMethod(init_method, args)
         IN  IF init \/ ~(init_method = PyNone \/ init_method = "")
             THEN IF st # NoState /\ m = "CTMRG"
                  THEN init_env(st, self, m, args)
                  ELSE [env |-> NoEnv, exc |-> "RuntimeError"]
             ELSE [env |-> self, exc |-> "none"]

----------------------------------------------------------------------------
(* The C4v variant: one corner and one edge *)

keyC == << <<0, 0>>, <<-1, -1>> >>

keyT == << <<0, 0>>, <<-1, 0>> >>

\* the corner stored under the key of its direction instead of env.keyC
init_from_ipeps_pbc_c4v_dirkey(st, env) ==
    LET a == Tensor(<<0, 0>>, {0, 1, 2}, OpenLegs({0, 1, 2}, 0))
        t == Tensor(<<0, 0>>, {0, 2}, OpenLegs({0, 2}, 0))
    IN  [env |-> [env EXCEPT !.C = (<< <<0, 0>>, <<-1, 0>> >> :> a) @@ @,
                             !.T = (env.keyT :> t) @@ @],
         exc |-> "none"]

init_from_ipeps_pbc_c4v(st, env) ==
    LET a == Tensor(<<0, 0>>, {0, 1, 2}, OpenLegs({0, 1, 2}, 0))
        t == Tensor(<<0, 0>>, {0, 2}, OpenLegs({0, 2}, 0))
    IN  [env |-> [env EXCEPT !.C = (env.keyC :> a) @@ @, !.T = (env.keyT :> t) @@ @],
         exc |-> "none"]

\* an initializer that clears the store before it fails
init_env_c4v_clearing(st, env, init_method, args) ==
    LET m == EffectiveMethod(init_method, args)
    IN  CASE m = "CTMRG" -> init_from_ipeps_pbc_c4v(st, env)
          [] m \in {"CONST", "RANDOM", "CTMRG_OBC"} ->
                [env |-> [env EXCEPT !.C = <<>>, !.T = <<>>], exc |-> "NotImplementedError"]
          [] OTHER -> [env |-> env, exc |-> "ValueError"]

init_env_c4v(st, env, init_method, args) ==
    LET m == EffectiveMethod(init_method, args)
    IN  CASE m = "CONST" -> init_const(env)
          [] m = "RANDOM" -> init_random(env)
          [] m = "CTMRG" -> init_from_ipeps_pbc_c4v(st, env)
          [] m = "CTMRG_OBC" -> init_from_ipeps_obc(st, env)
          [] OTHER -> [env |-> env, exc |-> "ValueError"]

\* ENV_C4V_ABELIAN.__init__
ENV_C4V_ABELIAN(x, st, settings, init, init_method, args) ==
    IF st # NoState /\ Cardinality(Sites(st)) # 1 THEN [env |-> NoEnv, exc |-> "AssertionError"]
    ELSE IF st = NoState /\ settings = PyNone THEN [env |-> NoEnv, exc |-> "RuntimeError"]
    ELSE LET self == [exists |-> TRUE, chi |-> x, keyC |-> keyC, keyT |-> keyT,
                      C |-> <<>>, T |-> <<>>]
             m == EffectiveMethod(init_method, args)
         IN  IF init \/ ~(init_method = PyNone \/ init_method = "")
             THEN IF st # NoState /\ m = "CTMRG"
                  THEN init_env_c4v(st, self, m, args)
                  ELSE [env |-> NoEnv, exc |-> "RuntimeError"]
             ELSE [env |-> self, exc |-> "none"]

get_C(env) == env.C[env.keyC]

get_T(env) == env.T[env.keyT]

----------------------------------------------------------------------------
(* Environment operations as actions *)

InitEnvSpec ==
    /\ monitor = "none"
    /\ ctm_args \in [ctm_env_init_type : InitMethods \cup {"BOGUS"}]
    /\ chi \in 1..MaxChi
    /\ mode \in {"ENV_ABELIAN", "ENV_C4V_ABELIAN"}
    /\ hist0 = None
    /\ history = None
    /\ lastRet = NoRet
    /\ lastIn = 0
    /\ calls = 0
    /\ pc = "idle"
    /\ sweeps = 0
    /\ state \in [lX : 1..MaxL, lY : 1..MaxL]
    /\ envA = NoEnv
    /\ envC4 = NoEnv
    /\ lastOp = NoOp
    /\ version = NoVersions
    /\ lastRdm = NoRdm
    /\ lastCast = NoCast
    /\ store = NoStore
    /\ opt = NoOpt
    /\ call = NoCall

\* e = ENV_ABELIAN(chi, state=..., settings=..., init=..., init_method=...)
NewEnvAbelian ==
    /\ mode = "ENV_ABELIAN"
    /\ \E withState \in BOOLEAN, withSettings \in BOOLEAN, init \in BOOLEAN, m \in MethodArgs :
       LET r == ENV_ABELIAN(chi, IF withState THEN state ELSE NoState,
                            IF withSettings THEN "settings" ELSE PyNone, init, m, ctm_args)
       IN  /\ envA' = IF r.exc = "none" THEN r.env ELSE envA
           /\ lastOp' = [op |-> "ENV_ABELIAN", method |-> m, withState |-> withState,
                        withSettings |-> withSettings,
                        init |-> init, exc |-> r.exc]
           /\ UNCHANGED <<ctm_args, state, envC4>>
           /\ UNCHANGED monVars
           /\ UNCHANGED rdmVars

\* e = ENV_C4V_ABELIAN(chi, state=..., settings=..., init=..., init_method=...)
NewEnvC4v ==
    /\ mode = "ENV_C4V_ABELIAN"
    /\ \E withState \in BOOLEAN, withSettings \in BOOLEAN, init \in BOOLEAN, m \in MethodArgs :
       LET r == ENV_C4V_ABELIAN(chi, IF withState THEN state ELSE NoState,
                                IF withSettings THEN "settings" ELSE PyNone, init, m, ctm_args)
       IN  /\ envC4' = IF r.exc = "none" THEN r.env ELSE envC4
           /\ lastOp' = [op |-> "ENV_C4V_ABELIAN", method |-> m, withState |-> withState,
                        withSettings |-> withSettings,
                        init |-> init, exc |-> r.exc]
           /\ UNCHANGED <<ctm_args, state, envA>>
           /\ UNCHANGED monVars
           /\ UNCHANGED rdmVars

\* init_env(state, env, init_method) of ctm/generic_abelian/env_abelian.py
InitEnvAbelian ==
    /\ mode = "ENV_ABELIAN"
    /\ envA.exists
    /\ \E m \in MethodArgs :
          LET r == init_env(state, envA, m, ctm_args)
          IN  /\ envA' = r.env
              /\ lastOp' = [op |-> "init_env", method |-> m, withState |-> TRUE,
                           withSettings |-> FALSE,
                           init |-> TRUE, exc |-> r.exc]
    /\ UNCHANGED <<ctm_args, state, envC4>>
    /\ UNCHANGED monVars
    /\ UNCHANGED rdmVars

\* init_env(state, env, init_method) of ctm/one_site_c4v_abelian/env_c4v_abelian.py
InitEnvC4v ==
    /\ mode = "ENV_C4V_ABELIAN"
    /\ envC4.exists
    /\ \E m \in MethodArgs :
          LET r == init_env_c4v(state, envC4, m, ctm_args)
          IN  /\ envC4' = r.env
              /\ lastOp' = [op |-> "init_env_c4v", method |-> m, withState |-> TRUE,
                           withSettings |-> FALSE,
                           init |-> TRUE, exc |-> r.exc]
    /\ UNCHANGED <<ctm_args, state, envA>>
    /\ UNCHANGED monVars
    /\ UNCHANGED rdmVars

NextEnv == NewEnvAbelian \/ NewEnvC4v \/ InitEnvAbelian \/ InitEnvC4v

SpecEnv == InitEnvSpec /\ [][NextEnv]_vars

----------------------------------------------------------------------------
Monitors == {"SU3.ctmrg_conv_energy", "optim_j1j2.ctmrg_conv_energy", "ctmrg_conv_C",
             "ctmrg_conv_rdm2x1", "ctmrg_conv_f.Energy", "ctmrg_conv_f.Partial_energy",
             "ctmrg_conv_f.SingularValue"}

\* the functionals that compare spectra rather than a scalar e_curr
SpectrumMonitors == {"ctmrg_conv_C", "ctmrg_conv_f.SingularValue"}

Energies == 0..MaxEnergy

SpecGrid == {i * (SVTolFactor + SVTolFactor \div 2) : i \in 0..MaxSpec}

\* singular values of one corner: env.chi values, non-increasing (all on the
\* lower grid point or all on the upper one)
CornerSpectra(x) == {[i \in 1..x |-> j] : j \in 0..1}

\* the corners ctmrg_conv_C takes the spectrum of
CornersRead == { <<-1, -1>>, <<1, -1>>, <<1, 1>> }

\* what a functional reads off (state, env) in one call
Evaluations(m, x) ==
    CASE m = "ctmrg_conv_C" -> [CornersRead -> CornerSpectra(x)]
      [] m = "ctmrg_conv_f.SingularValue" -> [1..4 -> SpecGrid]
      [] m = "ctmrg_conv_f.Partial_energy" -> Energies \cup {(SkipLen + 1) * Res}
      [] OTHER -> Energies

conv_check(m, v, x, hist, args) ==
    CASE m = "SU3.ctmrg_conv_energy" -> ctmrg_conv_energy_SU3(v, hist, args)
      [] m = "optim_j1j2.ctmrg_conv_energy" -> ctmrg_conv_energy_j1j2(v, hist, args)
      [] m = "ctmrg_conv_C" -> ctmrg_conv_C(v, x, hist, args)
      [] m = "ctmrg_conv_rdm2x1" -> ctmrg_conv_rdm2x1(v, hist, args)
      [] m = "ctmrg_conv_f.Energy" -> ctmrg_conv_f_Energy(v, hist, args)
      [] m = "ctmrg_conv_f.Partial_energy" -> ctmrg_conv_f_Partial_energy(v, hist, args)
      [] OTHER -> ctmrg_conv_f_SingularValue(v, hist, args)

\* the placeholder sweeps of Partial_energy carry no evaluation
CallBound(m) == IF m = "ctmrg_conv_f.Partial_energy" THEN SkipLen + 1 + MaxCalls ELSE MaxCalls

Init ==
    /\ monitor \in Monitors
    /\ ctm_args \in [ctm_max_iter : 1..MaxIter, ctm_conv_tol : 1..MaxTol]
    /\ chi \in IF monitor = "ctmrg_conv_C" THEN 1..MaxChi ELSE {1}
    /\ mode \in {"direct", "run"}
    /\ hist0 \in {None, PyList(<<>>)}
    /\ history = hist0
    /\ lastRet = NoRet
    /\ lastIn = 0
    /\ calls = 0
    /\ pc = IF mode = "run" THEN "loop" ELSE "idle"
    /\ sweeps = 0
    /\ state = [lX |-> 1, lY |-> 1]
    /\ envA = NoEnv
    /\ envC4 = NoEnv
    /\ lastOp = NoOp
    /\ version = NoVersions
    /\ lastRdm = NoRdm
    /\ lastCast = NoCast
    /\ store = NoStore
    /\ opt = NoOpt
    /\ call = NoCall

\* one call of the functional by its caller, the returned accumulator threaded on
MonitorCall ==
    /\ mode = "direct"
    /\ calls < CallBound(monitor)
    /\ \E v \in Evaluations(monitor, chi) :
          LET r == conv_check(monitor, v, chi, history, ctm_args)
          IN  /\ lastRet' = r
              /\ lastIn' = IF monitor \in SpectrumMonitors THEN 0 ELSE v
              /\ history' = r.hist
    /\ calls' = calls + 1
    /\ UNCHANGED <<monitor, ctm_args, chi, mode, hist0, pc, sweeps>>
    /\ UNCHANGED envVars
    /\ UNCHANGED rdmVars

\* ctmrg.run: one sweep, then the convergence check; the loop is range(ctm_max_iter)
RunSweep ==
    /\ mode = "run"
    /\ pc = "loop"
    /\ sweeps < ctm_args.ctm_max_iter
    /\ \E v \in Evaluations(monitor, chi) :
          LET r == conv_check(monitor, v, chi, history, ctm_args)
          IN  /\ lastRet' = r
              /\ lastIn' = IF monitor \in SpectrumMonitors THEN 0 ELSE v
              /\ history' = r.hist
              /\ pc' = IF r.kind = "raise" THEN "raised"
                       ELSE IF r.conv \/ sweeps + 1 >= ctm_args.ctm_max_iter THEN "returned"
                       ELSE "loop"
    /\ sweeps' = sweeps + 1
    /\ calls' = calls + 1
    /\ UNCHANGED <<monitor, ctm_args, chi, mode, hist0>>
    /\ UNCHANGED envVars
    /\ UNCHANGED rdmVars

Next == MonitorCall \/ RunSweep

Spec == Init /\ [][Next]_vars

----------------------------------------------------------------------------
(* The RDM engine (ctm/generic/rdm.py, ctm/one_site_c4v/rdm_c4v.py).        *)
(* A tensor is known by the storage it lives in.  The tensors held by      *)
(* env.C, env.T and state.sites have a storage each, with torch's _version *)
(* counter of in-place writes; a contraction, an arithmetic expression or  *)
(* a copy makes a new storage; a view, a permute and a rebinding share the *)
(* storage of their operand.  A routine is the sequence of its statements. *)

\* the n-th storage allocated inside a call
TmpStorage(n) == StorageOf("tmp", <<n, 0>>, <<0, 0>>)

SiteStorage(site) == StorageOf("site", site, <<0, 0>>)

\* the storages behind env.C, env.T and state.sites
Storages(variant, st) ==
    IF variant = "rdm_c4v"
    THEN {StorageOf("C", keyC[1], keyC[2]), StorageOf("T", keyT[1], keyT[2]),
          SiteStorage(<<0, 0>>)}
    ELSE {StorageOf("C", s, d) : s \in Sites(st), d \in CornerDirs}
         \cup {StorageOf("T", s, d) : s \in Sites(st), d \in EdgeDirs}
         \cup {SiteStorage(s) : s \in Sites(st)}

\* statements
Rd(dst, key) == [op |-> "read", dst |-> dst, src |-> <<>>, key |-> key]

Fr(dst, src) == [op |-> "fresh", dst |-> dst, src |-> src, key |-> NoStorage]

Al(dst, s) == [op |-> "alias", dst |-> dst, src |-> <<s>>, key |-> NoStorage]

Iw(dst) == [op |-> "iwrite", dst |-> dst, src |-> <<dst>>, key |-> NoStorage]

Use(s) == [op |-> "use", dst |-> s, src |-> <<s>>, key |-> NoStorage]

Ret(s) == [op |-> "ret", dst |-> s, src |-> <<s>>, key |-> NoStorage]

\* .cpu(), .to(device), .contiguous(), .reshape(): the operand itself when it
\* is already there (shares), a copy otherwise
Shr(dst, s, shares) == IF shares THEN Al(dst, s) ELSE Fr(dst, <<s>>)

\* rdm = 0.5*(rdm + rdm^H)
Sym(dst) == [op |-> "sym", dst |-> dst, src |-> <<dst>>, key |-> NoStorage]

\* rdm.copy_(rdm_posdef), rdm_posdef having the negative eigenvalues set to 0
Cp(dst) == [op |-> "copy_", dst |-> dst, src |-> <<dst>>, key |-> NoStorage]

\* rdm += eps*eye, eps the modulus of the lowest eigenvalue when it is negative
Ia(dst) == [op |-> "iadd", dst |-> dst, src |-> <<dst>>, key |-> NoStorage]

\* rdm = rdm / trace
Div(dst) == [op |-> "div", dst |-> dst, src |-> <<dst>>, key |-> NoStorage]

Raise(e) == [op |-> "raise", dst |-> e, src |-> <<>>, key |-> NoStorage]

\* rdm = contiguous(permute(rdm, ...)): the result carries the index order legs
Idx(dst, legs) == [op |-> "index", dst |-> dst, src |-> <<dst>>, key |-> NoStorage, legs |-> legs]

\* the (bra;ket) matrix of the contracted tensor, by the eigenvalues of its
\* Hermitian part
Matrix(eig) ==
    [eig |-> eig, herm |-> FALSE, normalized |-> FALSE, den |-> 1, steps |-> <<>>, legs |-> <<>>]

Frame(ver, eig) ==
    [version |-> ver, names |-> [x \in {} |-> NoStorage], created |-> {},
     written |-> {}, reads |-> {}, n |-> 0, exc |-> "none", ret |-> NoStorage,
     done |-> FALSE, m |-> Matrix(eig)]

Bind(f, dst, id) == [f EXCEPT !.names = (dst :> id) @@ f.names]

\* a new tensor bound to dst
Fresh(f, dst) ==
    [Bind(f, dst, TmpStorage(f.n)) EXCEPT
        !.created = f.created \cup {TmpStorage(f.n)}, !.n = f.n + 1]

\* an in-place write to the tensor bound to dst
Write(f, dst) ==
    LET id == f.names[dst]
    IN  [f EXCEPT !.written = f.written \cup {id},
                  !.version = IF id \in DOMAIN f.version
                              THEN [f.version EXCEPT ![id] = f.version[id] + 1]
                              ELSE f.version]

Clamp(eig) == [i \in DOMAIN eig |-> IF eig[i] < 0 THEN 0 ELSE eig[i]]

MinEig(eig) == CHOOSE x \in {eig[i] : i \in DOMAIN eig} : \A i \in DOMAIN eig : x <= eig[i]

ShiftUp(eig) ==
    LET eps == IF MinEig(eig) < 0 THEN Abs(MinEig(eig)) ELSE 0
    IN  [i \in DOMAIN eig |-> eig[i] + eps]

Trace(eig) == eig[1] + eig[2]

\* one statement on the frame of the call
Exec(f, ins) ==
    IF f.done \/ f.exc # "none" THEN f
    ELSE IF \E i \in 1..Len(ins.src) : ins.src[i] \notin DOMAIN f.names
         THEN [f EXCEPT !.exc = "UnboundLocalError"]
    ELSE CASE ins.op = "read" ->
                IF ins.key \in DOMAIN f.version
                THEN [Bind(f, ins.dst, ins.key) EXCEPT !.reads = f.reads \cup {ins.key}]
                ELSE [f EXCEPT !.exc = "KeyError"]
           [] ins.op = "fresh" -> Fresh(f, ins.dst)
           [] ins.op = "alias" -> Bind(f, ins.dst, f.names[ins.src[1]])
           [] ins.op = "iwrite" -> Write(f, ins.dst)
           [] ins.op = "sym" ->
                [Fresh(f, ins.dst) EXCEPT !.m.herm = TRUE, !.m.steps = Append(f.m.steps, "sym")]
           [] ins.op = "copy_" ->
                [Write(f, ins.dst) EXCEPT !.m.eig = Clamp(f.m.eig),
                                          !.m.steps = Append(f.m.steps, "clamp")]
           [] ins.op = "iadd" ->
                [Write(f, ins.dst) EXCEPT !.m.eig = ShiftUp(f.m.eig),
                                          !.m.steps = Append(f.m.steps, "shift")]
           [] ins.op = "div" ->
                [Fresh(f, ins.dst) EXCEPT !.m.normalized = TRUE, !.m.den = Trace(f.m.eig),
                                          !.m.steps = Append(f.m.steps, "div")]
           [] ins.op = "index" -> [Fresh(f, ins.dst) EXCEPT !.m.legs = ins.legs]
           [] ins.op = "raise" -> [f EXCEPT !.exc = ins.dst]
           [] ins.op = "ret" -> [f EXCEPT !.ret = f.names[ins.src[1]], !.done = TRUE]
           [] OTHER -> f

RECURSIVE RunFrom(_, _, _)
RunFrom(f, prog, i) ==
    IF i > Len(prog) THEN f
    ELSE LET g == Exec(f, prog[i])
         IN  IF g.done \/ g.exc # "none" THEN g ELSE RunFrom(g, prog, i + 1)

Run(f, prog) == RunFrom(f, prog, 1)

Shift(st, coord, vec) == vertexToSite(st, <<coord[1] + vec[1], coord[2] + vec[2]>>)

\* _sym_pos_def_matrix: rdm_asym and the symmetrized rdm are new tensors;
\* rdm.copy_(rdm_posdef) when a negative eigenvalue was clamped; rdm / norm
sym_pos_def_matrix(sym_pos_def, negEig) ==
    << Fr("rdm_asym", <<"rdm">>), Sym("rdm") >>
    \o (IF sym_pos_def /\ negEig THEN << Fr("rdm_posdef", <<"rdm">>), Cp("rdm") >> ELSE <<>>)
    \o << Div("rdm") >>

sym_pos_def_rdm(sym_pos_def, negEig, shares) ==
    << Shr("rdm", "rdm", shares) >> \o sym_pos_def_matrix(sym_pos_def, negEig)
    \o << Shr("rdm", "rdm", shares) >>

\* x = env.C[...] / env.T[...] / state.site(...), through .cpu() under force_cpu
Load(dst, key, force_cpu, shares) ==
    IF force_cpu THEN << Rd(dst, key), Shr(dst, dst, shares) >> ELSE << Rd(dst, key) >>

rdm1x1(st, coord, operator, sym_pos_def, negEig, force_cpu, shares) ==
    LET ld(n, k) == Load(n, k, force_cpu, shares)
        C(d) == StorageOf("C", coord, d)
        T(d) == StorageOf("T", coord, d)
    IN  ld("C", C(<<-1, -1>>)) \o ld("T", T(<<-1, 0>>)) \o << Fr("rdm", <<"C", "T">>) >>
        \o ld("C", C(<<-1, 1>>)) \o << Fr("rdm", <<"rdm", "C">>) >>
        \o ld("T", T(<<0, 1>>)) \o << Fr("rdm", <<"rdm", "T">>) >>
        \o ld("a_1layer", SiteStorage(vertexToSite(st, coord)))
        \o << Fr("a", <<"a_1layer">>), Shr("a", "a", shares), Al("a", "a"),
              Fr("rdm", <<"rdm", "a">>) >>
        \o ld("T", T(<<0, -1>>)) \o << Fr("rdm", <<"T", "rdm">>) >>
        \o ld("C", C(<<1, -1>>)) \o << Fr("rdm", <<"C", "rdm">>) >>
        \o ld("T", T(<<1, 0>>)) \o << Fr("rdm", <<"T", "rdm">>) >>
        \o ld("C", C(<<1, 1>>)) \o << Fr("rdm", <<"rdm", "C">>) >>
        \o (IF operator THEN <<>> ELSE sym_pos_def_rdm(sym_pos_def, negEig, shares))
        \o << Ret("rdm") >>

\* an enlarged corner: C and its two adjacent T of the site, with the double
\* layer of the on-site tensor, reshaped
EnlargedCorner(dst, site, dir, shares) ==
    << Rd("C", StorageOf("C", site, dir)),
       Rd("T1", StorageOf("T", site, <<dir[1], 0>>)),
       Rd("T2", StorageOf("T", site, <<0, dir[2]>>)),
       Rd("A", SiteStorage(site)),
       Fr("a", <<"A">>), Shr("a", "a", shares), Al("a", "a"),
       Fr(dst, <<"C", "T1">>), Fr(dst, <<dst, "T2">>), Fr(dst, <<dst, "a">>),
       Al(dst, dst), Shr(dst, dst, shares), Al(dst, dst) >>

\* a corner with one adjacent T, reshaped
HalfCorner(dst, site, dir, tdir, shares) ==
    << Rd("C", StorageOf("C", site, dir)), Rd("T", StorageOf("T", site, tdir)),
       Fr(dst, <<"C", "T">>), Shr(dst, dst, shares), Al(dst, dst) >>

\* contiguous(permute(rdm)) and the post-processing
Finish(sym_pos_def, negEig, shares) ==
    << Al("rdm", "rdm"), Shr("rdm", "rdm", shares) >>
    \o sym_pos_def_rdm(sym_pos_def, negEig, shares) \o << Ret("rdm") >>

\* ---- index order of the contracted tensors ----
\* A tensor is the sequence of its indices; an index is physical ("s", of
\* state.site), primed ("sp", of conj(state.site)) or auxiliary, and belongs
\* to the patch vertex coord+vec folded to site.
Leg(k, vec, site) == [k |-> k, vec |-> vec, site |-> site]

\* contract(A, B, (ia, ib)): the open indices of A, then those of B; positions
\* count from 0
Open(A, ia) == SelectSeq([i \in 1..Len(A) |-> <<i - 1, A[i]>>],
                         LAMBDA p : \A j \in 1..Len(ia) : ia[j] # p[1])

contract(A, B, ia, ib) ==
    LET a == Open(A, ia)
        b == Open(B, ib)
    IN  [i \in 1..Len(a) |-> a[i][2]] \o [i \in 1..Len(b) |-> b[i][2]]

permute(A, p) == [i \in 1..Len(p) |-> A[p[i] + 1]]

\* view(A, shape) where shape groups two consecutive indices into one, fused(i),
\* or keeps one index, kept(i); positions count from 0
fused(i) == <<i, i + 1>>

kept(i) == <<i>>

view(A, shape) ==
    [g \in 1..Len(shape) |->
        IF Len(shape[g]) = 1 THEN A[shape[g][1] + 1]
        ELSE Leg("aux", A[shape[g][1] + 1].vec, A[shape[g][1] + 1].site)]

\* env.C[(site, dir)] and env.T[(site, dir)]
CornerLegs(vec, site) == << Leg("aux", vec, site), Leg("aux", vec, site) >>

EdgeLegs(vec, site) == << Leg("aux", vec, site), Leg("aux", vec, site), Leg("aux", vec, site) >>

\* a = einsum('mefgh,nabcd->eafbgchdmn', A, conj(A)) viewed as (u, l, d, r, m, n)
DoubleLayer(vec, site) ==
    view(<< Leg("aux", vec, site), Leg("aux", vec, site), Leg("aux", vec, site),
            Leg("aux", vec, site), Leg("aux", vec, site), Leg("aux", vec, site),
            Leg("aux", vec, site), Leg("aux", vec, site),
            Leg("s", vec, site), Leg("sp", vec, site) >>,
         << fused(0), fused(2), fused(4), fused(6), kept(8), kept(9) >>)

C2x2_LU_legs(vec, site) ==
    LET t1 == contract(CornerLegs(vec, site), EdgeLegs(vec, site), <<1>>, <<0>>)
        t2 == contract(t1, EdgeLegs(vec, site), <<0>>, <<0>>)
        t3 == contract(t2, DoubleLayer(vec, site), <<0, 3>>, <<0, 1>>)
    IN  view(permute(t3, <<1, 2, 0, 3, 4, 5>>), << fused(0), fused(2), kept(4), kept(5) >>)

C2x2_RU_legs(vec, site) ==
    LET t1 == contract(CornerLegs(vec, site), EdgeLegs(vec, site), <<1>>, <<0>>)
        t2 == contract(t1, EdgeLegs(vec, site), <<0>>, <<2>>)
        t3 == contract(t2, DoubleLayer(vec, site), <<0, 3>>, <<3, 0>>)
    IN  view(permute(t3, <<1, 2, 0, 3, 4, 5>>), << fused(0), fused(2), kept(4), kept(5) >>)

C2x2_RD_legs(vec, site) ==
    LET t1 == contract(CornerLegs(vec, site), EdgeLegs(vec, site), <<1>>, <<2>>)
        t2 == contract(t1, EdgeLegs(vec, site), <<0>>, <<2>>)
        t3 == contract(t2, DoubleLayer(vec, site), <<0, 3>>, <<2, 3>>)
    IN  view(permute(t3, <<1, 2, 0, 3, 4, 5>>), << fused(0), fused(2), kept(4), kept(5) >>)

C2x2_LD_legs(vec, site) ==
    LET t1 == contract(CornerLegs(vec, site), EdgeLegs(vec, site), <<0>>, <<1>>)
        t2 == contract(t1, EdgeLegs(vec, site), <<0>>, <<1>>)
        t3 == contract(t2, DoubleLayer(vec, site), <<1, 2>>, <<1, 2>>)
    IN  view(permute(t3, <<0, 2, 1, 3, 4, 5>>), << fused(0), fused(2), kept(4), kept(5) >>)

\* the two-leg half corners C2x1_LD, C2x1_RD, C1x2_RU
HalfCornerLegs(vec, site, ic, it) ==
    view(contract(CornerLegs(vec, site), EdgeLegs(vec, site), <<ic>>, <<it>>),
         << fused(0), kept(2) >>)

C1x2_RD_legs(vec, site) ==
    view(permute(contract(EdgeLegs(vec, site), CornerLegs(vec, site), <<2>>, <<0>>), <<0, 2, 1>>),
         << kept(0), fused(1) >>)

\* rdm2x1 without its closing permute
rdm2x1_legs_unpermuted(st, coord) ==
    LET s0 == vertexToSite(st, coord)
        s1 == Shift(st, coord, <<1, 0>>)
        left_half == contract(HalfCornerLegs(<<0, 0>>, s0, 1, 1), C2x2_LU_legs(<<0, 0>>, s0),
                              <<0>>, <<0>>)
        right_half == contract(HalfCornerLegs(<<1, 0>>, s1, 1, 2), C2x2_RU_legs(<<1, 0>>, s1),
                               <<0>>, <<1>>)
    IN  contract(left_half, right_half, <<0, 1>>, <<0, 1>>)

rdm2x1_legs(st, coord) ==
    LET s0 == vertexToSite(st, coord)
        s1 == Shift(st, coord, <<1, 0>>)
        left_half == contract(HalfCornerLegs(<<0, 0>>, s0, 1, 1), C2x2_LU_legs(<<0, 0>>, s0),
                              <<0>>, <<0>>)
        right_half == contract(HalfCornerLegs(<<1, 0>>, s1, 1, 2), C2x2_RU_legs(<<1, 0>>, s1),
                               <<0>>, <<1>>)
    IN  permute(contract(left_half, right_half, <<0, 1>>, <<0, 1>>), <<0, 2, 1, 3>>)

rdm1x2_legs(st, coord) ==
    LET s0 == vertexToSite(st, coord)
        s1 == Shift(st, coord, <<0, 1>>)
        upper_half == contract(HalfCornerLegs(<<0, 0>>, s0, 1, 0), C2x2_LU_legs(<<0, 0>>, s0),
                               <<0>>, <<1>>)
        lower_half == contract(C1x2_RD_legs(<<0, 1>>, s1), C2x2_LD_legs(<<0, 1>>, s1),
                               <<1>>, <<1>>)
    IN  permute(contract(upper_half, lower_half, <<0, 1>>, <<0, 1>>), <<0, 2, 1, 3>>)

rdm2x2_legs(st, coord) ==
    LET C2x2_LU == C2x2_LU_legs(<<0, 0>>, vertexToSite(st, coord))
        C2x2_RU == C2x2_RU_legs(<<1, 0>>, Shift(st, coord, <<1, 0>>))
        upper_half == permute(contract(C2x2_LU, C2x2_RU, <<1>>, <<0>>), <<0, 3, 1, 2, 4, 5>>)
        C2x2_RD == C2x2_RD_legs(<<1, 1>>, Shift(st, coord, <<1, 1>>))
        C2x2_LD == C2x2_LD_legs(<<0, 1>>, Shift(st, coord, <<0, 1>>))
        lower_half == permute(contract(C2x2_LD, C2x2_RD, <<1>>, <<1>>), <<0, 3, 1, 2, 4, 5>>)
    IN  permute(contract(upper_half, lower_half, <<0, 1>>, <<0, 1>>),
                <<0, 2, 4, 6, 1, 3, 5, 7>>)

rdm2x1(st, coord, sym_pos_def, negEig, shares) ==
    LET s0 == vertexToSite(st, coord)
        s1 == Shift(st, coord, <<1, 0>>)
    IN  EnlargedCorner("C2x2_LU", s0, <<-1, -1>>, shares)
        \o HalfCorner("C2x1_LD", s0, <<-1, 1>>, <<0, 1>>, shares)
        \o << Fr("left_half", <<"C2x1_LD", "C2x2_LU">>) >>
        \o EnlargedCorner("C2x2_RU", s1, <<1, -1>>, shares)
        \o HalfCorner("C2x1_RD", s1, <<1, 1>>, <<0, 1>>, shares)
        \o << Fr("right_half", <<"C2x1_RD", "C2x2_RU">>),
              Fr("rdm", <<"left_half", "right_half">>) >>
        \o << Idx("rdm", rdm2x1_legs(st, coord)) >>
        \o Finish(sym_pos_def, negEig, shares)

rdm1x2(st, coord, sym_pos_def, negEig, shares) ==
    LET s0 == vertexToSite(st, coord)
        s1 == Shift(st, coord, <<0, 1>>)
    IN  EnlargedCorner("C2x2_LU", s0, <<-1, -1>>, shares)
        \o HalfCorner("C1x2_RU", s0, <<1, -1>>, <<1, 0>>, shares)
        \o << Fr("upper_half", <<"C1x2_RU", "C2x2_LU">>) >>
        \o EnlargedCorner("C2x2_LD", s1, <<-1, 1>>, shares)
        \o HalfCorner("C1x2_RD", s1, <<1, 1>>, <<1, 0>>, shares)
        \o << Fr("lower_half", <<"C1x2_RD", "C2x2_LD">>),
              Fr("rdm", <<"upper_half", "lower_half">>) >>
        \o << Idx("rdm", rdm1x2_legs(st, coord)) >>
        \o Finish(sym_pos_def, negEig, shares)

rdm2x2(st, coord, sym_pos_def, negEig, shares) ==
    EnlargedCorner("C2x2_LU", vertexToSite(st, coord), <<-1, -1>>, shares)
    \o EnlargedCorner("C2x2_RU", Shift(st, coord, <<1, 0>>), <<1, -1>>, shares)
    \o << Fr("upper_half", <<"C2x2_LU", "C2x2_RU">>) >>
    \o EnlargedCorner("C2x2_RD", Shift(st, coord, <<1, 1>>), <<1, 1>>, shares)
    \o EnlargedCorner("C2x2_LD", Shift(st, coord, <<0, 1>>), <<-1, 1>>, shares)
    \o << Fr("lower_half", <<"C2x2_LD", "C2x2_RD">>),
          Fr("rdm", <<"upper_half", "lower_half">>) >>
    \o << Idx("rdm", rdm2x2_legs(st, coord)) >>
    \o Finish(sym_pos_def, negEig, shares)

\* c2x2_LU, c2x2_RU, c2x2_RD, c2x2_LD of ctm/generic/ctm_components.py: the
\* enlarged corner of the site, a new tensor
c2x2(dst, st, coord, dir) ==
    LET site == vertexToSite(st, coord)
    IN  << Rd("C", StorageOf("C", site, dir)),
           Rd("T1", StorageOf("T", site, <<dir[1], 0>>)),
           Rd("T2", StorageOf("T", site, <<0, dir[2]>>)),
           Rd("A", SiteStorage(site)),
           Fr(dst, <<"C", "T1", "T2", "A">>) >>

rdm2x2_NNN_11(st, coord, sym_pos_def, negEig, shares) ==
    c2x2("C2X2_LU", st, coord, <<-1, -1>>)
    \o c2x2("C2X2_RU", st, Shift(st, coord, <<1, 0>>), <<1, -1>>)
    \o << Fr("upper_half", <<"C2X2_LU", "C2X2_RU">>), Al("upper_half", "upper_half") >>
    \o c2x2("C2X2_RD", st, Shift(st, coord, <<1, 1>>), <<1, 1>>)
    \o c2x2("C2X2_LD", st, Shift(st, coord, <<0, 1>>), <<-1, 1>>)
    \o << Fr("lower_half", <<"C2X2_LD", "C2X2_RD">>),
          Fr("rdm", <<"upper_half", "lower_half">>) >>
    \o Finish(sym_pos_def, negEig, shares)

rdm2x2_NNN_1n1(st, coord, sym_pos_def, negEig, shares) ==
    c2x2("C2X2_LU", st, Shift(st, coord, <<0, -1>>), <<-1, -1>>)
    \o c2x2("C2X2_RU", st, Shift(st, coord, <<1, -1>>), <<1, -1>>)
    \o << Fr("upper_half", <<"C2X2_LU", "C2X2_RU">>) >>
    \o c2x2("C2X2_RD", st, Shift(st, coord, <<1, 0>>), <<1, 1>>)
    \o c2x2("C2X2_LD", st, coord, <<-1, 1>>)
    \o << Fr("lower_half", <<"C2X2_LD", "C2X2_RD">>), Al("lower_half", "lower_half"),
          Fr("rdm", <<"lower_half", "upper_half">>) >>
    \o Finish(sym_pos_def, negEig, shares)

\* env.get_site_env_t(coord, state): the four C and the four T of the site
get_site_env_t(st, coord) ==
    LET s == vertexToSite(st, coord)
    IN  << Rd("C1", StorageOf("C", s, <<-1, -1>>)), Rd("C2", StorageOf("C", s, <<1, -1>>)),
           Rd("C3", StorageOf("C", s, <<1, 1>>)), Rd("C4", StorageOf("C", s, <<-1, 1>>)),
           Rd("T1", StorageOf("T", s, <<0, -1>>)), Rd("T2", StorageOf("T", s, <<1, 0>>)),
           Rd("T3", StorageOf("T", s, <<0, 1>>)), Rd("T4", StorageOf("T", s, <<-1, 0>>)) >>

CTCT_LD(st, coord) ==
    get_site_env_t(st, coord)
    \o << Fr("CTC_LD", <<"C1", "T4">>), Fr("CTC_LD", <<"CTC_LD", "C4">>),
          Fr("CTC_LD", <<"CTC_LD", "T3">>) >>

CTCT_RU(st, coord) ==
    get_site_env_t(st, coord)
    \o << Fr("CTC_RU", <<"T2", "C3">>), Fr("CTC_RU", <<"C2", "CTC_RU">>),
          Fr("CTC_RU", <<"T1", "CTC_RU">>) >>

Lhalf_1x2(st, coord, shares) ==
    CTCT_LD(st, coord)
    \o << Al("Lhalf", "CTC_LD"), Rd("T1", StorageOf("T", coord, <<0, -1>>)),
          Al("T1p", "T1"), Shr("T1p", "T1p", shares), Fr("Lhalf", <<"T1p", "Lhalf">>) >>

Rhalf_1x2(st, coord) ==
    CTCT_RU(st, coord)
    \o << Al("Rhalf", "CTC_RU"), Rd("T3", StorageOf("T", coord, <<0, 1>>)),
          Fr("Rhalf", <<"Rhalf", "T3">>) >>

\* no post-processing: permute/contiguous, view, permute/contiguous
aux_rdm1x1(st, coord, shares) ==
    CTCT_LD(st, coord) \o CTCT_RU(st, coord)
    \o << Fr("rdm", <<"CTC_LD", "CTC_RU">>), Al("rdm", "rdm"), Shr("rdm", "rdm", shares),
          Rd("a", SiteStorage(vertexToSite(st, coord))),
          Al("rdm", "rdm"), Al("rdm", "rdm"), Shr("rdm", "rdm", shares), Ret("rdm") >>

aux_rdm1x2(st, coord, shares) ==
    Lhalf_1x2(st, coord, shares) \o Rhalf_1x2(st, coord)
    \o << Fr("rdm", <<"Lhalf", "Rhalf">>), Al("rdm", "rdm"), Shr("rdm", "rdm", shares),
          Rd("a00", SiteStorage(vertexToSite(st, coord))),
          Rd("a10", SiteStorage(Shift(st, coord, <<1, 0>>))),
          Al("rdm", "rdm"), Al("rdm", "rdm"), Shr("rdm", "rdm", shares), Ret("rdm") >>

(* The C4v routines: env.C[env.keyC], env.T[env.keyT] and the single site. *)

SiteC4v == SiteStorage(<<0, 0>>)

LoadC4v(force_cpu, shares) ==
    Load("C", StorageOf("C", keyC[1], keyC[2]), force_cpu, shares)
    \o Load("T", StorageOf("T", keyT[1], keyT[2]), force_cpu, shares)
    \o Load("a", SiteC4v, force_cpu, shares)

\* if verbosity>2: env.log(f"... {rdm.size()}")
LogRdm(verbose) == IF verbose THEN << Use("rdm") >> ELSE <<>>

\* rdm= 0.5*(rdm+rdm.t()); rdm+= eps*eye; rdm= rdm / trace
SymShiftNormalize ==
    << Sym("rdm"), Ia("rdm"), Div("rdm") >>

\* the in-place shift applied to the corner instead of the symmetrized rdm
rdm1x1_c4v_onC(verbose, shares) ==
    << Rd("C", StorageOf("C", keyC[1], keyC[2])), Rd("T", StorageOf("T", keyT[1], keyT[2])),
       Fr("CTC", <<"C", "T">>) >> \o LogRdm(verbose)
    \o << Fr("CTC", <<"CTC", "C">>) >> \o LogRdm(verbose)
    \o << Fr("rdm", <<"CTC", "T">>) >> \o LogRdm(verbose)
    \o << Rd("A", SiteC4v), Fr("a", <<"A", "A">>), Shr("a", "a", shares), Al("a", "a"),
          Fr("rdm", <<"rdm", "a">>) >> \o LogRdm(verbose)
    \o << Fr("rdm", <<"T", "rdm">>) >> \o LogRdm(verbose)
    \o << Fr("rdm", <<"rdm", "CTC">>) >> \o LogRdm(verbose)
    \o << Sym("rdm"), Iw("C"), Div("rdm") >> \o << Ret("rdm") >>

rdm1x1_c4v(verbose, shares) ==
    << Rd("C", StorageOf("C", keyC[1], keyC[2])), Rd("T", StorageOf("T", keyT[1], keyT[2])),
       Fr("CTC", <<"C", "T">>) >> \o LogRdm(verbose)
    \o << Fr("CTC", <<"CTC", "C">>) >> \o LogRdm(verbose)
    \o << Fr("rdm", <<"CTC", "T">>) >> \o LogRdm(verbose)
    \o << Rd("A", SiteC4v), Fr("a", <<"A", "A">>), Shr("a", "a", shares), Al("a", "a"),
          Fr("rdm", <<"rdm", "a">>) >> \o LogRdm(verbose)
    \o << Fr("rdm", <<"T", "rdm">>) >> \o LogRdm(verbose)
    \o << Fr("rdm", <<"rdm", "CTC">>) >> \o LogRdm(verbose)
    \o SymShiftNormalize \o << Ret("rdm") >>

rdm1x1_sl_c4v(verbose, shares) ==
    << Rd("C", StorageOf("C", keyC[1], keyC[2])), Rd("T", StorageOf("T", keyT[1], keyT[2])),
       Fr("CTC", <<"C", "T">>) >> \o LogRdm(verbose)
    \o << Fr("CTC", <<"CTC", "C">>) >> \o LogRdm(verbose)
    \o << Fr("rdm", <<"CTC", "T">>), Rd("a", SiteC4v), Al("rdm", "rdm") >> \o LogRdm(verbose)
    \o << Fr("rdm", <<"rdm", "a">>) >> \o LogRdm(verbose)
    \o << Fr("rdm", <<"rdm", "a">>), Al("rdm", "rdm"), Shr("rdm", "rdm", shares),
          Al("rdm", "rdm") >> \o LogRdm(verbose)
    \o << Fr("rdm", <<"T", "rdm">>) >> \o LogRdm(verbose)
    \o << Fr("rdm", <<"rdm", "CTC">>) >> \o LogRdm(verbose)
    \o SymShiftNormalize \o << Ret("rdm") >>

aux_rdm1x1_c4v(verbose, shares) ==
    LoadC4v(FALSE, shares)
    \o << Fr("CTC", <<"C", "T">>) >> \o LogRdm(verbose)
    \o << Fr("CTC", <<"CTC", "C">>) >> \o LogRdm(verbose)
    \o << Fr("rdm", <<"CTC", "T">>) >> \o LogRdm(verbose)
    \o << Fr("rdm", <<"rdm", "T">>) >> \o LogRdm(verbose)
    \o << Fr("rdm", <<"rdm", "CTC">>) >> \o LogRdm(verbose)
    \o << Al("rdm", "rdm"), Shr("rdm", "rdm", shares), Al("rdm", "rdm"), Al("rdm", "rdm"),
          Shr("rdm", "rdm", shares), Ret("rdm") >>

\* permute/contiguous, view, the post-processing, view
FinishC4v(shares) ==
    << Al("rdm", "rdm"), Shr("rdm", "rdm", shares), Al("rdm", "rdm") >>
    \o SymShiftNormalize \o << Al("rdm", "rdm") >>

rdm2x1_c4v(shares) ==
    << Rd("C", StorageOf("C", keyC[1], keyC[2])), Rd("T", StorageOf("T", keyT[1], keyT[2])),
       Rd("A", SiteC4v), Fr("a", <<"A", "A">>), Shr("a", "a", shares), Al("a", "a"),
       Fr("C2x1", <<"C", "T">>), Fr("C2x2", <<"C2x1", "T">>), Fr("C2x2", <<"C2x2", "a">>),
       Al("C2x2", "C2x2"), Shr("C2x2", "C2x2", shares), Al("C2x2", "C2x2"),
       Fr("left_half", <<"C2x1", "C2x2">>), Fr("rdm", <<"left_half", "left_half">>) >>
    \o FinishC4v(shares) \o << Ret("rdm") >>

rdm2x1_sl_c4v(force_cpu, shares) ==
    LoadC4v(force_cpu, shares)
    \o << Fr("C2x1", <<"C", "T">>), Fr("C2x2", <<"C2x1", "T">>), Al("C2x2", "C2x2"),
          Fr("C2x2", <<"C2x2", "a">>), Fr("C2x2", <<"C2x2", "a">>),
          Al("C2x2", "C2x2"), Shr("C2x2", "C2x2", shares), Al("C2x2", "C2x2"),
          Fr("left_half", <<"C2x1", "C2x2">>), Fr("rdm", <<"left_half", "left_half">>) >>
    \o FinishC4v(shares) \o << Shr("rdm", "rdm", shares), Ret("rdm") >>

\* _get_open_C2x2_LU_sl / _get_open_C2x2_LU_dl: the enlarged corner with the
\* physical legs open
get_open_C2x2_LU(shares) ==
    << Fr("C2x2", <<"C", "T">>), Fr("C2x2", <<"C2x2", "T">>), Fr("C2x2", <<"C2x2", "a">>),
       Al("C2x2", "C2x2"), Shr("C2x2", "C2x2", shares), Al("C2x2", "C2x2") >>

rdm2x2_NN_lowmem_c4v(force_cpu, shares) ==
    LoadC4v(force_cpu, shares) \o get_open_C2x2_LU(shares)
    \o << Fr("C2x2c", <<"C2x2">>), Al("C2x2", "C2x2"), Fr("C2x2", <<"C2x2c", "C2x2">>),
          Fr("rdm", <<"C2x2", "C2x2">>), Al("rdm", "rdm") >>
    \o FinishC4v(shares) \o << Shr("rdm", "rdm", shares), Ret("rdm") >>

rdm2x2_NNN_lowmem_c4v(force_cpu, shares) ==
    LoadC4v(force_cpu, shares) \o get_open_C2x2_LU(shares)
    \o << Fr("C2x2c", <<"C2x2">>), Al("C2x2", "C2x2"),
          Fr("rdm", <<"C2x2", "C2x2">>), Fr("rdm", <<"C2x2c", "rdm">>), Al("rdm", "rdm") >>
    \o FinishC4v(shares) \o << Shr("rdm", "rdm", shares), Ret("rdm") >>

\* if verbosity>0: print(... torch.cuda.max_memory_allocated(loc_device) ...),
\* not guarded by is_cpu as in the other routines; is_cpu is the case of
\* env.C on a cpu device in a process with CUDA initialized, which torch
\* rejects with ValueError
CudaMem(verbosity, is_cpu) ==
    IF verbosity > 0 /\ is_cpu THEN << Raise("ValueError") >> ELSE <<>>

\* symmetrized only under sym_pos_def, no in-place shift
rdm2x2_c4v(sym_pos_def, verbosity, is_cpu, shares) ==
    LoadC4v(FALSE, shares)
    \o << Fr("A", <<"a", "a">>), Shr("A", "A", shares), Al("A", "A") >>
    \o CudaMem(verbosity, is_cpu)
    \o << Fr("C2x2", <<"C", "T">>), Fr("C2x2", <<"C2x2", "T">>), Fr("C2x2", <<"C2x2", "A">>),
          Al("C2x2", "C2x2"), Shr("C2x2", "C2x2", shares), Al("C2x2", "C2x2"),
          Fr("upper_half", <<"C2x2", "C2x2">>), Al("upper_half", "upper_half"),
          Fr("rdm", <<"upper_half", "upper_half">>),
          Al("rdm", "rdm"), Shr("rdm", "rdm", shares), Al("rdm", "rdm") >>
    \o (IF sym_pos_def THEN << Sym("rdm") >> ELSE <<>>)
    \o << Div("rdm"), Al("rdm", "rdm"), Ret("rdm") >>

GenericRoutines == {"rdm1x1", "rdm2x1", "rdm1x2", "rdm2x2", "rdm2x2_NNN_11", "rdm2x2_NNN_1n1",
                    "aux_rdm1x1", "aux_rdm1x2"}

C4vRoutines == {"rdm1x1", "rdm1x1_sl", "aux_rdm1x1", "rdm2x1", "rdm2x1_sl",
                "rdm2x2_NN_lowmem", "rdm2x2_NNN_lowmem", "rdm2x2"}

\* the statements of one call of a routine of ctm/generic/rdm.py
GenericProgram(r, st, coord, operator, sym_pos_def, negEig, force_cpu, shares) ==
    CASE r = "rdm1x1" -> rdm1x1(st, coord, operator, sym_pos_def, negEig, force_cpu, shares)
      [] r = "rdm2x1" -> rdm2x1(st, coord, sym_pos_def, negEig, shares)
      [] r = "rdm1x2" -> rdm1x2(st, coord, sym_pos_def, negEig, shares)
      [] r = "rdm2x2" -> rdm2x2(st, coord, sym_pos_def, negEig, shares)
      [] r = "rdm2x2_NNN_11" -> rdm2x2_NNN_11(st, coord, sym_pos_def, negEig, shares)
      [] r = "rdm2x2_NNN_1n1" -> rdm2x2_NNN_1n1(st, coord, sym_pos_def, negEig, shares)
      [] r = "aux_rdm1x1" -> aux_rdm1x1(st, coord, shares)
      [] OTHER -> aux_rdm1x2(st, coord, shares)

\* the statements of one call of a routine of ctm/one_site_c4v/rdm_c4v.py
C4vProgram(r, sym_pos_def, force_cpu, verbosity, is_cpu, shares) ==
    CASE r = "rdm1x1" -> rdm1x1_c4v(verbosity > 2, shares)
      [] r = "rdm1x1_sl" -> rdm1x1_sl_c4v(verbosity > 2, shares)
      [] r = "aux_rdm1x1" -> aux_rdm1x1_c4v(verbosity > 2, shares)
      [] r = "rdm2x1" -> rdm2x1_c4v(shares)
      [] r = "rdm2x1_sl" -> rdm2x1_sl_c4v(force_cpu, shares)
      [] r = "rdm2x2_NN_lowmem" -> rdm2x2_NN_lowmem_c4v(force_cpu, shares)
      [] r = "rdm2x2_NNN_lowmem" -> rdm2x2_NNN_lowmem_c4v(force_cpu, shares)
      [] OTHER -> rdm2x2_c4v(sym_pos_def, verbosity, is_cpu, shares)

\* the arguments of a call, with what the contraction gives (eig) and where
\* the tensors live (is_cpu, shares)
RdmArgs(r, coord, sym_pos_def, operator, force_cpu, verbosity, shares, is_cpu, eig) ==
    [routine |-> r, coord |-> coord, sym_pos_def |-> sym_pos_def, operator |-> operator,
     force_cpu |-> force_cpu, verbosity |-> verbosity, shares |-> shares, is_cpu |-> is_cpu,
     eig |-> eig]

\* the frame at the end of the call
RdmResult(variant, st, ver, a) ==
    Run(Frame(ver, a.eig),
        IF variant = "rdm_c4v"
        THEN C4vProgram(a.routine, a.sym_pos_def, a.force_cpu, a.verbosity, a.is_cpu, a.shares)
        ELSE GenericProgram(a.routine, st, a.coord, a.operator, a.sym_pos_def,
                            MinEig(a.eig) < 0, a.force_cpu, a.shares))

\* what the call did: how it ended, the matrix it returned, the tensors it
\* read, the storages it wrote in place and those of them it had not created
Outcome(a, f) ==
    [routine |-> a.routine, coord |-> a.coord, sym_pos_def |-> a.sym_pos_def,
     operator |-> a.operator, force_cpu |-> a.force_cpu, verbosity |-> a.verbosity,
     shares |-> a.shares, is_cpu |-> a.is_cpu, eig |-> a.eig,
     exc |-> f.exc, written |-> f.written, foreign |-> f.written \ f.created,
     reads |-> f.reads, out |-> f.m]

\* the eigenvalues of the Hermitian part of a contracted patch (trace > 0)
Spectra == {e \in ((0 - 1)..MaxEig) \X (1..MaxEig) : e[1] <= e[2] /\ e[1] + e[2] > 0}

\* the vertices a caller asks for: the unit cell and the first vertex
\* diagonally beyond it
Coords(st) == Sites(st) \cup {<<st.lX, st.lY>>}

InitRdm ==
    /\ monitor = "none"
    /\ ctm_args = [ctm_max_iter |-> 1, ctm_conv_tol |-> 1]
    /\ chi = 1
    /\ mode \in {"rdm", "rdm_c4v"}
    /\ hist0 = None
    /\ history = None
    /\ lastRet = NoRet
    /\ lastIn = 0
    /\ calls = 0
    /\ pc = "idle"
    /\ sweeps = 0
    /\ state \in IF mode = "rdm_c4v" THEN {[lX |-> 1, lY |-> 1]}
                 ELSE [lX : 1..MaxL, lY : 1..MaxL]
    /\ envA = NoEnv
    /\ envC4 = NoEnv
    /\ lastOp = NoOp
    /\ version = [k \in Storages(mode, state) |-> 0]
    /\ lastRdm = NoRdm
    /\ lastCast = NoCast
    /\ store = NoStore
    /\ opt = NoOpt
    /\ call = NoCall

\* one call of a routine of ctm/generic/rdm.py on (coord, state, env)
RdmCall ==
    /\ mode = "rdm"
    /\ lastRdm = NoRdm
    /\ lastCast = NoCast
    /\ \E r \in GenericRoutines, coord \in Coords(state), sym_pos_def \in BOOLEAN,
          shares \in BOOLEAN, eig \in Spectra, verbosity \in {0, MaxVerbosity} :
       \E operator \in IF r = "rdm1x1" THEN BOOLEAN ELSE {FALSE},
          force_cpu \in IF r = "rdm1x1" THEN BOOLEAN ELSE {FALSE} :
          LET a == RdmArgs(r, coord, sym_pos_def, operator, force_cpu, verbosity, shares,
                           TRUE, eig)
              f == RdmResult(mode, state, version, a)
          IN  /\ version' = f.version
              /\ lastRdm' = Outcome(a, f)
    /\ UNCHANGED <<lastCast, store, opt, call>>
    /\ UNCHANGED monVars
    /\ UNCHANGED <<ctm_args, state, envA, envC4, lastOp>>

\* one call of a routine of ctm/one_site_c4v/rdm_c4v.py on (state, env)
RdmCallC4v ==
    /\ mode = "rdm_c4v"
    /\ lastRdm = NoRdm
    /\ lastCast = NoCast
    /\ \E r \in C4vRoutines, verbosity \in 0..MaxVerbosity, shares \in BOOLEAN,
          eig \in Spectra :
       \E sym_pos_def \in IF r = "rdm2x2" THEN BOOLEAN ELSE {FALSE},
          is_cpu \in IF r = "rdm2x2" THEN BOOLEAN ELSE {TRUE},
          force_cpu \in IF r \in {"rdm2x1_sl", "rdm2x2_NN_lowmem", "rdm2x2_NNN_lowmem"}
                        THEN BOOLEAN ELSE {FALSE} :
          LET a == RdmArgs(r, <<0, 0>>, sym_pos_def, FALSE, force_cpu, verbosity, shares,
                           is_cpu, eig)
              f == RdmResult(mode, state, version, a)
          IN  /\ version' = f.version
              /\ lastRdm' = Outcome(a, f)
    /\ UNCHANGED <<lastCast, store, opt, call>>
    /\ UNCHANGED monVars
    /\ UNCHANGED <<ctm_args, state, envA, envC4, lastOp>>

\* _cast_to_real(t, fail_on_check, warn_on_check, imag_eps=1.0e-8).  Real parts
\* are counted in units of 1e-8 and imaginary parts in units of 1e-16, so that
\* abs(t.imag)/(abs(t.real)+1.0e-8) > imag_eps reads Abs(im) > Abs(re) + 1.
cast_to_real_strict(t, fail_on_check, warn_on_check) ==
    IF t.complex
    THEN IF Abs(t.im) > Abs(t.re) + 1
         THEN [called |-> TRUE, t |-> t, ret |-> Scalar(0, 0, FALSE),
               warned |-> warn_on_check, exc |-> "RuntimeError"]
         ELSE [called |-> TRUE, t |-> t, ret |-> Scalar(t.re, 0, FALSE),
               warned |-> FALSE, exc |-> "none"]
    ELSE [called |-> TRUE, t |-> t, ret |-> t, warned |-> FALSE, exc |-> "none"]

cast_to_real(t, fail_on_check, warn_on_check) ==
    IF t.complex
    THEN IF Abs(t.im) > Abs(t.re) + 1
         THEN IF fail_on_check
              THEN [called |-> TRUE, t |-> t, ret |-> Scalar(0, 0, FALSE),
                    warned |-> warn_on_check, exc |-> "RuntimeError"]
              ELSE [called |-> TRUE, t |-> t, ret |-> Scalar(t.re, 0, FALSE),
                    warned |-> warn_on_check, exc |-> "none"]
         ELSE [called |-> TRUE, t |-> t, ret |-> Scalar(t.re, 0, FALSE),
               warned |-> FALSE, exc |-> "none"]
    ELSE [called |-> TRUE, t |-> t, ret |-> t, warned |-> FALSE, exc |-> "none"]

\* the traces rdm.diagonal().sum() may hand over
Traces == {Scalar(re, im, c) : re \in (0 - MaxEig)..MaxEig, im \in (0 - MaxEig)..MaxEig,
                               c \in BOOLEAN} \ {Scalar(re, im, FALSE) : re \in (0 - MaxEig)..MaxEig,
                               im \in ((0 - MaxEig)..MaxEig) \ {0}}

\* norm= _cast_to_real(rdm.diagonal().sum(), who=who, **kwargs) of
\* _sym_pos_def_matrix, which _sym_pos_def_rdm calls without kwargs
CastTrace ==
    /\ mode = "rdm"
    /\ lastRdm = NoRdm
    /\ lastCast = NoCast
    /\ \E t \in Traces : lastCast' = cast_to_real(t, FALSE, TRUE)
    /\ UNCHANGED <<version, lastRdm, store, opt, call>>
    /\ UNCHANGED monVars
    /\ UNCHANGED envVars
    /\ UNCHANGED ctm_args

\* the caller consumes the returned value
RdmDrop ==
    /\ mode \in {"rdm", "rdm_c4v"}
    /\ lastRdm # NoRdm \/ lastCast # NoCast
    /\ lastRdm' = NoRdm
    /\ lastCast' = NoCast
    /\ UNCHANGED <<version, store, opt, call>>
    /\ UNCHANGED monVars
    /\ UNCHANGED envVars
    /\ UNCHANGED ctm_args

NextRdm == RdmCall \/ RdmCallC4v \/ CastTrace \/ RdmDrop

SpecRdm == InitRdm /\ [][NextRdm]_vars

----------------------------------------------------------------------------
(* The environment store of ctm/generic_abelian/env_abelian.py: leg         *)
(* dimensions, the dense form and snapshots.  The dictionaries env.C and    *)
(* env.T live in a heap, store.dicts, and an environment holds the places   *)
(* of its two dictionaries, so that two environments can share one.         *)

\* the environment record behind a handle
EnvAt(dicts, h) == [exists |-> TRUE, chi |-> h.chi, C |-> dicts[h.C], T |-> dicts[h.T]]

\* the auxiliary bond dimensions of a state: of the bond to the right ("h")
\* and of the bond below ("v") each site; at most one bond, one of the
\* vertex (0,0), differs from 1
Bonds(st) ==
    {[b \in Sites(st) \X {"h", "v"} |-> IF b = k THEN dd ELSE 1] :
        k \in {<<0, 0>>} \X {"h", "v"}, dd \in 1..MaxD}

\* dimension of leg 1 (up), 2 (left), 3 (down), 4 (right) of the on-site tensor
LegDim(st, D, site, leg) ==
    CASE leg = 1 -> D[<<vertexToSite(st, <<site[1], site[2] - 1>>), "v">>]
      [] leg = 2 -> D[<<vertexToSite(st, <<site[1] - 1, site[2]>>), "h">>]
      [] leg = 3 -> D[<<site, "v">>]
      [] OTHER -> D[<<site, "h">>]

\* a corner the CTM moves have put in place of the initial one
Replaced(dims) == [site |-> <<0, 0>>, traced |-> {}, open |-> <<>>, dims |-> dims]

IsReplaced(t) == "dims" \in DOMAIN t

\* the legs of an environment tensor, each the sequence of the dimensions
\* fused into it: a.fuse_legs(axes=((0,1),(2,3))) fuses a leg of A with the
\* same leg of conj(A)
Legs(st, D, t) ==
    IF IsReplaced(t) THEN [i \in 1..Len(t.dims) |-> <<t.dims[i]>>]
    ELSE [i \in 1..Len(t.open) |->
            <<LegDim(st, D, t.site, t.open[i]), LegDim(st, D, t.site, t.open[i])>>]

Prod(f) == IF Len(f) = 1 THEN f[1] ELSE f[1] * f[2]

Size(legs) == [i \in 1..Len(legs) |-> Prod(legs[i])]

\* t.unfuse_legs(p), p counted from 0
unfuse_legs(legs, p) ==
    SubSeq(legs, 1, p) \o [i \in 1..Len(legs[p + 1]) |-> <<legs[p + 1][i]>>]
    \o SubSeq(legs, p + 2, Len(legs))

dir_to_leg(dir) ==
    CASE dir = <<0, -1>> -> 1
      [] dir = <<0, 1>> -> 0
      [] dir = <<-1, 0>> -> 2
      [] OTHER -> 1

\* what to_dense merges into the legs of the unfused T[(xy, dir)]: the
\* neighbouring edge at xy+off or the corner cdir of xy, its leg, and the leg
\* of T it meets
Merge(from, off, leg, to) == [from |-> from, off |-> off, leg |-> leg, to |-> to]

Merges(dir) ==
    CASE dir = <<0, -1>> ->
            { Merge("T", <<-1, 0>>, 3, 0), Merge("C", <<-1, -1>>, 1, 0),
              Merge("T", <<1, 0>>, 0, 3), Merge("C", <<1, -1>>, 0, 3) }
      [] dir = <<0, 1>> ->
            { Merge("T", <<-1, 0>>, 3, 2), Merge("C", <<-1, 1>>, 1, 2),
              Merge("T", <<1, 0>>, 2, 3), Merge("C", <<1, 1>>, 1, 3) }
      [] dir = <<-1, 0>> ->
            { Merge("T", <<0, -1>>, 1, 0), Merge("C", <<-1, -1>>, 0, 0),
              Merge("T", <<0, 1>>, 0, 1), Merge("C", <<-1, 1>>, 0, 1) }
      [] OTHER ->
            { Merge("T", <<0, -1>>, 3, 0), Merge("C", <<1, -1>>, 1, 0),
              Merge("T", <<0, 1>>, 0, 3), Merge("C", <<1, 1>>, 0, 3) }

\* C_lss[(tid[0], cdir)][leg]= T_lss[tid][tleg]
CornerFrom(cdir, leg) ==
    CASE cdir = <<-1, -1>> -> IF leg = 0 THEN << <<-1, 0>>, 0 >> ELSE << <<0, -1>>, 0 >>
      [] cdir = <<1, -1>> -> IF leg = 0 THEN << <<0, -1>>, 3 >> ELSE << <<1, 0>>, 0 >>
      [] cdir = <<-1, 1>> -> IF leg = 0 THEN << <<-1, 0>>, 1 >> ELSE << <<0, 1>>, 2 >>
      [] OTHER -> IF leg = 0 THEN << <<1, 0>>, 3 >> ELSE << <<0, 1>>, 3 >>

\* the largest size under Python's comparison of tuples
LexMax(S) == CHOOSE p \in S : \A q \in S : q[1] < p[1] \/ (q[1] = p[1] /\ q[2] <= p[2])

\* a dense tensor: zeros of the given shape with the densified tensor in the
\* leading block
Dense(shape, block) == [shape |-> shape, block |-> block]

Fits(dt) == \A i \in 1..Len(dt.shape) : dt.block[i] <= dt.shape[i]

\* tmp_T[tid]= t.unfuse_legs(dir_to_leg[tid[1]]), by its sizes
tmp_T(self, st, D, tid) == Size(unfuse_legs(Legs(st, D, self.T[tid]), dir_to_leg(tid[2])))

\* the tensor a merge of T[tid] names: tmp_T[(vts(xy+off), dir)] or self.C[(xy, cdir)]
Other(st, tid, m) ==
    IF m.from = "T"
    THEN << vertexToSite(st, <<tid[1][1] + m.off[1], tid[1][2] + m.off[2]>>), tid[2] >>
    ELSE << tid[1], m.off >>

\* T_lss[tid]= yast.leg_structures_for_dense(tensors=[tmp_T[tid], ...]): a
\* merged leg is as large as the largest leg merged into it
T_lss(self, st, D, tid) ==
    [i \in 1..4 |->
        MaxOf({tmp_T(self, st, D, tid)[i]} \cup
              {(IF m.from = "T" THEN tmp_T(self, st, D, Other(st, tid, m))
                ELSE Size(Legs(st, D, self.C[Other(st, tid, m)])))[m.leg + 1] :
                  m \in {n \in Merges(tid[2]) : n.to = i - 1}})]

\* C_torch[cid]= c.to_dense(leg_structures=C_lss[cid]), by its size
C_torch(self, st, D, cid) ==
    [i \in 1..2 |->
        LET src == CornerFrom(cid[2], i - 1)
        IN  IF << cid[1], src[1] >> \in DOMAIN self.T
            THEN T_lss(self, st, D, << cid[1], src[1] >>)[src[2] + 1]
            ELSE Size(Legs(st, D, self.C[cid]))[i]]

\* T_torch[tid]= t.to_dense(leg_structures=T_lss[tid]).view(...), by its size
T_torch(self, st, D, tid) ==
    LET t == T_lss(self, st, D, tid)
    IN  CASE tid[2] = <<0, -1>> -> << t[1], t[2] * t[3], t[4] >>
          [] tid[2] = <<0, 1>> -> << t[1] * t[2], t[3], t[4] >>
          [] tid[2] = <<-1, 0>> -> << t[1], t[2], t[3] * t[4] >>
          [] OTHER -> << t[1], t[2] * t[3], t[4] >>

\* torch.zeros(...) of the edge in direction dir for the densified size t
PaddedEdge(dir, max_chi, t) ==
    CASE dir = <<0, -1>> -> <<max_chi, t[2], max_chi>>
      [] dir = <<-1, 0>> -> <<max_chi, max_chi, t[3]>>
      [] dir = <<0, 1>> -> <<t[1], max_chi, max_chi>>
      [] OTHER -> <<max_chi, t[2], max_chi>>

\* ENV_ABELIAN.to_dense(state)
to_dense(self, st, D) ==
    IF \E tid \in DOMAIN self.T : \E m \in Merges(tid[2]) :
           Other(st, tid, m) \notin (IF m.from = "T" THEN DOMAIN self.T ELSE DOMAIN self.C)
    THEN [env |-> NoEnv, exc |-> "KeyError"]
    ELSE IF DOMAIN self.C = {}
    THEN [env |-> NoEnv, exc |-> "ValueError"]
    ELSE LET sizes == [cid \in DOMAIN self.C |-> C_torch(self, st, D, cid)]
             top == LexMax({sizes[cid] : cid \in DOMAIN self.C})
             max_chi == MaxOf({self.chi, MaxOf({top[1], top[2]})})
             newC == [cid \in DOMAIN self.C |-> Dense(<<max_chi, max_chi>>, sizes[cid])]
             newT == [tid \in DOMAIN self.T |->
                        LET t == T_torch(self, st, D, tid)
                        IN  Dense(PaddedEdge(tid[2], max_chi, t), t)]
         IN  IF (\A cid \in DOMAIN newC : Fits(newC[cid]))
                /\ (\A tid \in DOMAIN newT : Fits(newT[tid]))
             THEN [env |-> [exists |-> TRUE, chi |-> max_chi, C |-> newC, T |-> newT],
                   exc |-> "none"]
             ELSE [env |-> NoEnv, exc |-> "RuntimeError"]

\* a snapshot whose dictionaries are those of the source
clone_shared(dicts, self, args) ==
    [dicts |-> dicts, out |-> Handle(self.chi, self.C, self.T), exc |-> "none"]

\* ENV_ABELIAN.clone(): e= ENV_ABELIAN(self.chi, settings=self.engine), then
\* e.C= {cid: c.clone() ...}, e.T= {tid: t.clone() ...}
clone(dicts, self, args) ==
    LET e == ENV_ABELIAN(self.chi, NoState, "settings", FALSE, PyNone, args)
    IN  IF e.exc # "none" THEN [dicts |-> dicts, out |-> NoHandle, exc |-> e.exc]
        ELSE [dicts |-> dicts \o << dicts[self.C], dicts[self.T] >>,
              out |-> Handle(e.env.chi, Len(dicts) + 1, Len(dicts) + 2), exc |-> "none"]

\* ENV_ABELIAN.detach(): as clone(), with c.detach() for c.clone()
detach(dicts, self, args) ==
    LET e == ENV_ABELIAN(self.chi, NoState, "settings", FALSE, PyNone, args)
    IN  IF e.exc # "none" THEN [dicts |-> dicts, out |-> NoHandle, exc |-> e.exc]
        ELSE [dicts |-> dicts \o << dicts[self.C], dicts[self.T] >>,
              out |-> Handle(e.env.chi, Len(dicts) + 1, Len(dicts) + 2), exc |-> "none"]

\* ENV_ABELIAN.extend(new_chi)
extend(dicts, self, new_chi) == [dicts |-> dicts, out |-> NoHandle, exc |-> "NotImplementedError"]

\* the store around an environment just constructed
NewStore(D, e) ==
    [NoStore EXCEPT !.D = D, !.dicts = << e.C, e.T >>, !.env = Handle(e.chi, 1, 2)]

\* the sizes a replaced corner may have
Grown == {d \in {1, MaxEnvDim} \X {1, MaxEnvDim} : d # <<1, 1>>}

InitStore ==
    /\ monitor = "none"
    /\ ctm_args = [ctm_env_init_type |-> "CTMRG"]
    /\ chi \in 1..MaxChi
    /\ mode = "store"
    /\ hist0 = None
    /\ history = None
    /\ lastRet = NoRet
    /\ lastIn = 0
    /\ calls = 0
    /\ pc = "idle"
    /\ sweeps = 0
    /\ state \in [lX : 1..MaxL, lY : 1..MaxL]
    /\ envA = NoEnv
    /\ envC4 = NoEnv
    /\ lastOp = NoOp
    /\ version = NoVersions
    /\ lastRdm = NoRdm
    /\ lastCast = NoCast
    /\ store \in {NewStore(D, ENV_ABELIAN(chi, state, PyNone, FALSE, PyNone, ctm_args).env) :
                    D \in Bonds(state)}
    /\ opt = NoOpt
    /\ call = NoCall

StoreFrame ==
    /\ UNCHANGED <<ctm_args, state, envA, envC4, lastOp>>
    /\ UNCHANGED monVars
    /\ UNCHANGED <<version, lastRdm, lastCast, opt, call>>

\* init_env(state, env, 'CTMRG') on the environment just constructed
InitStoreEnv ==
    /\ mode = "store"
    /\ store.op = "none"
    /\ DOMAIN store.dicts[store.env.C] = {}
    /\ LET r == init_env(state, EnvAt(store.dicts, store.env), "CTMRG", ctm_args)
       IN  /\ r.exc = "none"
           /\ store' = [store EXCEPT !.dicts[store.env.C] = r.env.C,
                                     !.dicts[store.env.T] = r.env.T]
    /\ StoreFrame

\* a CTM move puts a new corner of the vertex (0,0) into env.C
Absorb ==
    /\ mode = "store"
    /\ store.op = "none"
    /\ \A k \in DOMAIN store.dicts[store.env.C] : ~IsReplaced(store.dicts[store.env.C][k])
    /\ \E dir \in CornerDirs, dims \in Grown :
          /\ << <<0, 0>>, dir >> \in DOMAIN store.dicts[store.env.C]
          /\ store' = [store EXCEPT !.dicts[store.env.C][<< <<0, 0>>, dir >>] = Replaced(dims)]
    /\ StoreFrame

\* env_dense= env.to_dense(state)
ToDense ==
    /\ mode = "store"
    /\ store.op = "none"
    /\ LET r == to_dense(EnvAt(store.dicts, store.env), state, store.D)
       IN  store' = IF r.exc = "none"
                    THEN [store EXCEPT !.op = "to_dense", !.exc = "none",
                                       !.dicts = @ \o << r.env.C, r.env.T >>,
                                       !.out = Handle(r.env.chi, Len(store.dicts) + 1,
                                                      Len(store.dicts) + 2)]
                    ELSE [store EXCEPT !.op = "to_dense", !.exc = r.exc]
    /\ StoreFrame

\* e= env.clone()
Clone ==
    /\ mode = "store"
    /\ store.op = "none"
    /\ LET r == clone(store.dicts, store.env, ctm_args)
       IN  store' = [store EXCEPT !.op = "clone", !.via = "clone", !.exc = r.exc,
                                  !.dicts = r.dicts, !.out = r.out]
    /\ StoreFrame

\* e= env.detach()
Detach ==
    /\ mode = "store"
    /\ store.op = "none"
    /\ LET r == detach(store.dicts, store.env, ctm_args)
       IN  store' = [store EXCEPT !.op = "detach", !.via = "detach", !.exc = r.exc,
                                  !.dicts = r.dicts, !.out = r.out]
    /\ StoreFrame

\* env.extend(new_chi)
Extend ==
    /\ mode = "store"
    /\ store.op = "none"
    /\ \E new_chi \in 1..MaxChi :
          LET r == extend(store.dicts, store.env, new_chi)
          IN  store' = [store EXCEPT !.op = "extend", !.exc = r.exc, !.dicts = r.dicts,
                                     !.out = r.out]
    /\ StoreFrame

\* the keys an update after a snapshot uses: one of the unit cell, one new
UpdateKeys(st) == { << <<0, 0>>, <<-1, -1>> >>, << <<st.lX, st.lY>>, <<-1, -1>> >> }

\* e.C[k]= t on the source ("env") or on the snapshot ("out")
SetEntry ==
    /\ mode = "store"
    /\ store.op \in {"clone", "detach"}
    /\ store.exc = "none"
    /\ \E target \in {"env", "out"}, k \in UpdateKeys(state) :
          LET h == IF target = "env" THEN store.env ELSE store.out
          IN  store' = [store EXCEPT !.op = "set", !.target = target,
                           !.dicts[h.C] = (k :> Replaced(<<MaxEnvDim, MaxEnvDim>>)) @@ @]
    /\ StoreFrame

\* del e.C[k] on the source ("env") or on the snapshot ("out")
DelEntry ==
    /\ mode = "store"
    /\ store.op \in {"clone", "detach"}
    /\ store.exc = "none"
    /\ \E target \in {"env", "out"}, k \in UpdateKeys(state) :
          LET h == IF target = "env" THEN store.env ELSE store.out
          IN  /\ k \in DOMAIN store.dicts[h.C]
              /\ store' = [store EXCEPT !.op = "del", !.target = target,
                              !.dicts[h.C] = [j \in (DOMAIN @) \ {k} |-> @[j]]]
    /\ StoreFrame

NextStore == InitStoreEnv \/ Absorb \/ ToDense \/ Clone \/ Detach \/ Extend \/ SetEntry \/ DelEntry

SpecStore == InitStore /\ [][NextStore]_vars

----------------------------------------------------------------------------
(* The kagome optimization driver (examples/abelian/                        *)
(* optim_kagome_spin_half_u1.py): main, loss_fn, obs_fn and the test that   *)
(* reads what main printed.  An environment is an object of a heap,         *)
(* opt.envs; its content is the version of the state whose fixed point it   *)
(* holds (Fresh0 for one just initialized).  A printed number is known by   *)
(* the quantity, the state version and the environment content it was       *)
(* evaluated on; a printed line is the sequence of its comma-separated      *)
(* tokens.                                                                  *)

\* the content of an environment that init_env has just (re)built
Fresh0 == 0 - 1

\* a number: quantity q evaluated on state version st and environment content env
Val(q, st, env) == [q |-> q, st |-> st, env |-> env]

NoVal == Val("none", 0, 0)

\* one token of l.split(','): leading words, then possibly a number
Tok(word, val) == [word |-> word, val |-> val]

\* model.eval_obs(state, env): obs_values, obs_labels
eval_obs(st, env) == [i \in 1..MaxObs |-> Val(<<"obs", i>>, st, env)]

obs_labels == [i \in 1..MaxObs |-> Tok("label", Val(<<"obs", i>>, 0, 0))]

\* energy_f(state, env)
energy_f(st, env) == Val("energy", st, env)

Numbers(vals) == [i \in 1..Len(vals) |-> Tok("", vals[i])]

\* ctmrg.run(state, env): the engine leaves the fixed point of the state in
\* the environment it was given, or in a functional copy of it
ctmrg_run(envs, h, st, inplace) ==
    IF inplace THEN [envs |-> [envs EXCEPT ![h] = st], env |-> h]
    ELSE [envs |-> Append(envs, st), env |-> Len(envs) + 1]

\* loss_fn(state, ctm_env_in, opt_context)
loss_fn(o, ctm_env_in) ==
    LET envs1 == IF o.reinit THEN [o.envs EXCEPT ![ctm_env_in] = Fresh0] ELSE o.envs
        r == ctmrg_run(envs1, ctm_env_in, o.st, o.inplace)
    IN  [envs |-> r.envs, ctm_env_out |-> r.env, loss |-> energy_f(o.st, r.envs[r.env])]

\* obs_fn(state, ctm_env, opt_context): what it reads and the line it prints
\* (without the norms of the sites that end the line)
obs_fn(o, ctm_env) ==
    IF o.line_search
    THEN [read |-> 0,
          line |-> << Tok("LS", Val("epoch", Len(o.loss_ls), 0)),
                      Tok("", o.loss_ls[Len(o.loss_ls)]) >>]
    ELSE [read |-> o.ctm_env_init,
          line |-> << Tok("", Val("epoch", Len(o.loss), 0)), Tok("", o.loss[Len(o.loss)]) >>
                   \o Numbers(eval_obs(o.st, o.envs[o.ctm_env_init]))]

\* main up to the call of optimize_state: ctm_env_init= ENV_ABELIAN(...,
\* init=True), ctmrg.run, and the two lines printed for epoch -1
main_init(inplace, reinit) ==
    LET r == ctmrg_run(<< Fresh0 >>, 1, 0, inplace)
    IN  [pc |-> "optimize", inplace |-> inplace, reinit |-> reinit, st |-> 0,
         envs |-> r.envs, ctm_env_init |-> r.env, current_env |-> r.env,
         loss |-> <<>>, loss_ls |-> <<>>, line_search |-> FALSE,
         read |-> 0, passed |-> 0, file |-> Fresh0,
         out |-> << << Tok("epoch", NoVal), Tok("loss", NoVal) >> \o obs_labels,
                    << Tok("", Val("epoch", Fresh0, 0)),
                       Tok("", energy_f(0, r.envs[r.env])) >>
                    \o Numbers(eval_obs(0, r.envs[r.env])) >>]

\* main after optimize_state: the state is read from the file written, a
\* new environment is made and converged, and the FINAL line is printed
main_final(o) ==
    LET r == ctmrg_run(Append(o.envs, Fresh0), Len(o.envs) + 1, o.file, o.inplace)
        e == energy_f(o.file, r.envs[r.env])
        obs == eval_obs(o.file, r.envs[r.env])
    IN  [o EXCEPT !.pc = "finished", !.envs = r.envs,
                  !.out = @ \o << << Tok("", NoVal) >>, << Tok("", NoVal) >>,
                                  << Tok("epoch", NoVal), Tok("energy", NoVal) >> \o obs_labels,
                                  << Tok("FINAL", e) >> \o Numbers(obs) >>]

\* "epoch, energy," in l
HasEpochEnergy(l) == Len(l) > 2 /\ l[1].word = "epoch" /\ l[2].word = "energy"

\* "FINAL" in l
HasFinal(l) == l[1].word = "FINAL"

\* l.rstrip()==""
IsBlank(l) == Len(l) = 1 /\ l[1] = Tok("", NoVal)

\* the loop of test_basic_opt_rvb over the lines printed, from line i on
RECURSIVE readline(_, _, _)
readline(out, i, p) ==
    IF i > Len(out) THEN p
    ELSE LET l == out[i]
             done == p.OPT_OBS_DONE \/ (p.OPT_OBS /\ IsBlank(l))
             line == IF p.OPT_OBS /\ ~done /\ Len(l) > 2 THEN i ELSE p.final_opt_line
             p1 == [OPT_OBS |-> p.OPT_OBS \/ (HasEpochEnergy(l) /\ ~done),
                    OPT_OBS_DONE |-> done, final_opt_line |-> line, final_obs |-> 0]
         IN  IF HasFinal(l) THEN [p1 EXCEPT !.final_obs = i]
             ELSE readline(out, i + 1, p1)

\* test_basic_opt_rvb: the lines it selects and the pairs of numbers it compares
test_basic_opt_rvb(out) ==
    LET p == readline(out, 1, [OPT_OBS |-> FALSE, OPT_OBS_DONE |-> FALSE,
                               final_opt_line |-> 0, final_obs |-> 0])
    IN  IF p.final_obs = 0 \/ p.final_opt_line = 0
        THEN [exc |-> "AssertionError", final_opt_line |-> p.final_opt_line, pairs |-> <<>>]
        ELSE LET final_opt_line_t == Tail(out[p.final_opt_line])
                 fobs_tokens == [i \in 1..Len(out[p.final_obs]) |-> out[p.final_obs][i].val]
                 n == IF Len(final_opt_line_t) < Len(fobs_tokens)
                      THEN Len(final_opt_line_t) ELSE Len(fobs_tokens)
                 pairs == [i \in 1..n |-> << final_opt_line_t[i].val, fobs_tokens[i] >>]
             IN  [exc |-> IF \A i \in 1..n : pairs[i][1] = pairs[i][2]
                          THEN "none" ELSE "AssertionError",
                  final_opt_line |-> p.final_opt_line, pairs |-> pairs]

InitOpt ==
    /\ monitor = "none"
    /\ ctm_args = [ctm_env_init_type |-> "CTMRG"]
    /\ chi = 1
    /\ mode = "optimize"
    /\ hist0 = None
    /\ history = None
    /\ lastRet = NoRet
    /\ lastIn = 0
    /\ calls = 0
    /\ pc = "idle"
    /\ sweeps = 0
    /\ state = [lX |-> 1, lY |-> 1]
    /\ envA = NoEnv
    /\ envC4 = NoEnv
    /\ lastOp = NoOp
    /\ version = NoVersions
    /\ lastRdm = NoRdm
    /\ lastCast = NoCast
    /\ store = NoStore
    /\ call = NoCall
    /\ opt \in {main_init(inplace, reinit) : inplace \in BOOLEAN, reinit \in BOOLEAN}

OptFrame ==
    /\ UNCHANGED <<ctm_args, state, envA, envC4, lastOp>>
    /\ UNCHANGED monVars
    /\ UNCHANGED <<version, lastRdm, lastCast, store, call>>

\* the optimizer's closure: loss, ctm_env, ... = loss_fn(state, current_env[0],
\* context), the loss is recorded, the state is written if the loss improved
\* and current_env[0] becomes the environment returned
Closure ==
    /\ mode = "optimize"
    /\ opt.pc = "optimize"
    /\ Len(opt.loss) < MaxEpoch
    /\ \E line_search \in BOOLEAN, improved \in BOOLEAN :
          /\ Len(opt.loss_ls) + (IF line_search THEN 1 ELSE 0) <= MaxEpoch
          /\ LET r == loss_fn(opt, opt.current_env)
             IN  opt' = [opt EXCEPT !.pc = "closure", !.envs = r.envs,
                            !.current_env = r.ctm_env_out,
                            !.line_search = line_search,
                            !.loss = IF line_search THEN @ ELSE Append(@, r.loss),
                            !.loss_ls = IF line_search THEN Append(@, r.loss) ELSE @,
                            !.file = IF improved /\ ~line_search THEN opt.st ELSE @]
    /\ OptFrame

\* obs_fn(state, current_env[0], context)
ObsFn ==
    /\ mode = "optimize"
    /\ opt.pc = "closure"
    /\ LET r == obs_fn(opt, opt.current_env)
       IN  opt' = [opt EXCEPT !.pc = "observed", !.read = r.read,
                              !.passed = opt.current_env,
                              !.out = Append(@, r.line)]
    /\ OptFrame

\* the optimizer moves the parameters of the state, or tries again
Step ==
    /\ mode = "optimize"
    /\ opt.pc = "observed"
    /\ opt' = [opt EXCEPT !.pc = "optimize", !.st = IF opt.line_search THEN @ ELSE @ + 1]
    /\ OptFrame

\* optimize_state returns; main reads the state back and prints FINAL
ReadBack ==
    /\ mode = "optimize"
    /\ opt.pc \in {"optimize", "observed"}
    /\ opt.file # Fresh0
    /\ opt' = main_final(opt)
    /\ OptFrame

NextOpt == Closure \/ ObsFn \/ Step \/ ReadBack

SpecOpt == InitOpt /\ [][NextOpt]_vars

----------------------------------------------------------------------------
(* Pure functions: lattice_to_site of optim_j1j2.py and compute_multiplets *)
(* of ctm/one_site_c4v_abelian/env_c4v_abelian.py.                          *)

\* python's abs
PyAbs(x) == IF x < 0 THEN 0 - x ELSE x

\* a tiling that forgets the row
lattice_to_site_row_blind(tiling, coord) ==
    LET vx == (coord[1] + PyAbs(coord[1]) * 2) % 2
        vy == (coord[2] + PyAbs(coord[2]) * 1) % 1
    IN  << vx, vy >>

\* lattice_to_site(coord) as main defines it for args.tiling
lattice_to_site(tiling, coord) ==
    IF tiling = "BIPARTITE"
    THEN LET vx == (coord[1] + PyAbs(coord[1]) * 2) % 2
             vy == PyAbs(coord[2])
         IN  << (vx + vy) % 2, 0 >>
    ELSE LET vx == (coord[1] + PyAbs(coord[1]) * 2) % 2
             vy == (coord[2] + PyAbs(coord[2]) * 1) % 1
         IN  << vx, vy >>

\* main: the tilings it accepts
Tilings == {"BIPARTITE", "STRIPE"}

\* torch.sort(S_dense, descending=True): the largest entry first, then the rest
RECURSIVE sort_descending(_)
sort_descending(s) ==
    IF s = <<>> THEN <<>>
    ELSE LET top == MaxOf({s[i] : i \in 1..Len(s)})
             at == CHOOSE i \in 1..Len(s) : s[i] = top /\ \A j \in 1..(i - 1) : s[j] # top
             rest == [j \in 1..(Len(s) - 1) |-> IF j < at THEN s[j] ELSE s[j + 1]]
         IN  << top >> \o sort_descending(rest)

\* the loop `for i in range(chi)` of compute_multiplets from i on (i counted from 0)
RECURSIVE multiplets(_, _, _, _, _)
multiplets(D, i, l, m, eps) ==
    IF i >= Len(D) - 1 THEN m
    ELSE LET l1 == l + 1
             g == D[i + 1] - D[i + 2]
         IN  IF g > eps THEN multiplets(D, i + 1, 0, Append(m, l1), eps)
             ELSE multiplets(D, i + 1, l1, m, eps)

\* compute_multiplets without the sort
compute_multiplets_unsorted(S_dense, eps_multiplet_gap) ==
    LET D == S_dense \o << 0 >>
    IN  [D |-> S_dense, m |-> multiplets(D, 0, 0, <<>>, eps_multiplet_gap)]

\* compute_multiplets(C, eps_multiplet_gap), C known by the diagonal S_dense of
\* its singular values
compute_multiplets(S_dense, eps_multiplet_gap) ==
    LET chi_ == Len(S_dense)
        D == sort_descending(S_dense) \o << 0 >>
    IN  [D |-> SubSeq(D, 1, chi_), m |-> multiplets(D, 0, 0, <<>>, eps_multiplet_gap)]

\* a call about to be made
Pending(fn, args) == [fn |-> fn, args |-> args, done |-> FALSE, ret |-> << >>, exc |-> "none"]

Coordinates == (0 - MaxCoord)..MaxCoord

InitFn ==
    /\ monitor = "none"
    /\ ctm_args = [ctm_env_init_type |-> "CTMRG"]
    /\ chi = 1
    /\ mode = "call"
    /\ hist0 = None
    /\ history = None
    /\ lastRet = NoRet
    /\ lastIn = 0
    /\ calls = 0
    /\ pc = "idle"
    /\ sweeps = 0
    /\ state = [lX |-> 1, lY |-> 1]
    /\ envA = NoEnv
    /\ envC4 = NoEnv
    /\ lastOp = NoOp
    /\ version = NoVersions
    /\ lastRdm = NoRdm
    /\ lastCast = NoCast
    /\ store = NoStore
    /\ opt = NoOpt
    /\ call \in {Pending("lattice_to_site", [tiling |-> t, coord |-> c]) :
                    t \in Tilings \cup {"SQUARE"}, c \in Coordinates \X Coordinates}
           \cup {Pending("compute_multiplets", [S_dense |-> s, eps |-> e]) :
                    s \in UNION {[1..n -> 0..MaxSV] : n \in 1..MaxSvd}, e \in 0..MaxGap}

FnFrame ==
    /\ UNCHANGED <<ctm_args, state, envA, envC4, lastOp>>
    /\ UNCHANGED monVars
    /\ UNCHANGED <<version, lastRdm, lastCast, store, opt>>

\* main of optim_j1j2.py defines lattice_to_site for args.tiling, or raises;
\* the function is then applied to a coordinate
LatticeToSite ==
    /\ mode = "call"
    /\ call.fn = "lattice_to_site"
    /\ ~call.done
    /\ call' = IF call.args.tiling \in Tilings
               THEN [call EXCEPT !.done = TRUE,
                                 !.ret = lattice_to_site(call.args.tiling, call.args.coord)]
               ELSE [call EXCEPT !.done = TRUE, !.exc = "ValueError"]
    /\ FnFrame

\* D, m = compute_multiplets(C, eps_multiplet_gap)
ComputeMultiplets ==
    /\ mode = "call"
    /\ call.fn = "compute_multiplets"
    /\ ~call.done
    /\ call' = [call EXCEPT !.done = TRUE,
                            !.ret = compute_multiplets(call.args.S_dense, call.args.eps)]
    /\ FnFrame

NextFn == LatticeToSite \/ ComputeMultiplets

SpecFn == InitFn /\ [][NextFn]_vars

----------------------------------------------------------------------------
(* Properties of the convergence functionals and of the sweep loop *)

ItemsOf(h) == IF h.tag = "list" THEN h.items ELSE <<>>

EnergyMonitors == {"SU3.ctmrg_conv_energy", "ctmrg_conv_f.Energy"}

\* C1: every call of the scalar-energy monitor appends exactly the evaluated
\* energy to history and returns converged=True iff, after the append,
\* (len > 1 and |history[-1]-history[-2]| < ctm_conv_tol) or len >= ctm_max_iter.
C1_EnergyMonitorContract ==
    [][(monitor \in EnergyMonitors /\ calls' = calls + 1) =>
         LET h == ItemsOf(history')
             n == Len(h)
         IN  /\ lastRet'.kind = "pair"
             /\ lastRet'.hist = history'
             /\ h = Append(ItemsOf(history), lastIn')
             /\ lastRet'.conv <=>
                   ((n > 1 /\ Abs(h[n] - h[n - 1]) < ctm_args.ctm_conv_tol)
                    \/ n >= ctm_args.ctm_max_iter)]_vars

\* C1 witness: the energy monitor has signalled convergence at the ceiling,
\* the last two energies still differing by at least the tolerance
C1_Witness ==
    /\ monitor \in EnergyMonitors
    /\ calls >= 2
    /\ lastRet.conv
    /\ Len(history.items) = ctm_args.ctm_max_iter
    /\ Abs(history.items[calls] - history.items[calls - 1]) >= ctm_args.ctm_conv_tol

\* C2: every convergence functional returns converged=True on the call at which
\* the number of sweep evaluations reaches ctm_max_iter.
C2_CeilingReturnsTrue ==
    (calls = ctm_args.ctm_max_iter /\ lastRet.exc # "AttributeError") => lastRet.conv

\* C3: a CTMRG run started from an empty history stops after at most
\* ctm_max_iter sweeps and returns normally, whichever monitor is supplied.
C3_RunStopsNormally ==
    (mode = "run" /\ hist0 = PyList(<<>>)) =>
        /\ sweeps <= ctm_args.ctm_max_iter
        /\ pc # "raised"
        /\ (sweeps = ctm_args.ctm_max_iter => pc = "returned")

\* number of sweep evaluations an accumulator holds
Recorded(h) ==
    CASE h.tag = "None" -> 0
      [] h.tag = "list" -> IF monitor = "ctmrg_conv_C" /\ Len(h.items) > 0
                           THEN Len(h.items) - 4 * chi ELSE Len(h.items)
      [] h.tag = "dict" -> Len(h.log)
      [] OTHER -> IF Len(h.spec) = 4 THEN 1 ELSE 0

\* C4: the first call of every convergence functional, with history None or
\* empty, raises no error and returns (flag, accumulator) with the accumulator
\* holding the first evaluation.
C4_FirstCallTolerated ==
    calls = 1 =>
        /\ lastRet.kind = "pair"
        /\ lastRet.hist = history
        /\ Recorded(history) = 1

\* every entry of h is still in place in g
Preserved(h, g) ==
    CASE Falsy(h) -> TRUE
      [] h.tag = "list" -> g.tag = "list" /\ IsPrefix(h.items, g.items)
      [] h.tag = "dict" -> /\ g.tag = "dict"
                           /\ IsPrefix(h.log, g.log)
                           /\ (h.hasRdm => g.hasRdm /\ g.rdm = h.rdm)
      [] OTHER -> g.tag = "sv" /\ g.ite = h.ite /\ IsPrefix(h.spec, g.spec)

LogOf(h) ==
    CASE h.tag = "None" -> <<>>
      [] h.tag = "list" -> IF monitor = "ctmrg_conv_C"
                           THEN SubSeq(h.items, 4 * chi + 1, Len(h.items))
                           ELSE h.items
      [] h.tag = "dict" -> h.log
      [] OTHER -> <<>>

----------------------------------------------------------------------------
(* Properties of the environment store and its initializer *)

KeysAt(f, coord) == {k \in DOMAIN f : k[1] = coord}

\* C6: after init_env(state, env, 'CTMRG') on an ENV_ABELIAN every vertex of
\* state.sites has exactly the four corner keys and the four edge keys, the call
\* creates no other key, and a repeated call leaves the key sets the same.
C6_FourCornersFourEdges ==
    [][(lastOp'.op = "init_env" /\ lastOp'.exc = "none") =>
         /\ \A coord \in Sites(state) :
               /\ KeysAt(envA'.C, coord) = { <<coord, <<-1, -1>> >>, <<coord, <<1, -1>> >>,
                                             <<coord, <<1, 1>> >>, <<coord, <<-1, 1>> >> }
               /\ KeysAt(envA'.T, coord) = { <<coord, <<0, -1>> >>, <<coord, <<-1, 0>> >>,
                                             <<coord, <<0, 1>> >>, <<coord, <<1, 0>> >> }
         /\ \A k \in (DOMAIN envA'.C \cup DOMAIN envA'.T) \ (DOMAIN envA.C \cup DOMAIN envA.T) :
               k[1] \in Sites(state)
         /\ (DOMAIN envA.C # {} =>
               DOMAIN envA'.C = DOMAIN envA.C /\ DOMAIN envA'.T = DOMAIN envA.T)]_vars

\* C6 witness: init_env has populated the environment of a cell of several sites
C6_Witness ==
    /\ lastOp.op = "init_env"
    /\ lastOp.exc = "none"
    /\ Cardinality(Sites(state)) > 1
    /\ Cardinality(DOMAIN envA.C) = 4 * Cardinality(Sites(state))
    /\ Cardinality(DOMAIN envA.T) = 4 * Cardinality(Sites(state))

\* C7: after init_env(state, env, 'CTMRG') an ENV_C4V_ABELIAN holds exactly one
\* corner, under ((0,0),(-1,-1)), and one edge, under ((0,0),(-1,0)), which
\* get_C() and get_T() return; a state of more than one site is rejected by the
\* constructor.
C7_SingleCornerSingleEdge ==
    /\ (lastOp.op = "init_env_c4v" /\ lastOp.exc = "none") =>
          /\ DOMAIN envC4.C = { << <<0, 0>>, <<-1, -1>> >> }
          /\ DOMAIN envC4.T = { << <<0, 0>>, <<-1, 0>> >> }
          /\ get_C(envC4) = envC4.C[<< <<0, 0>>, <<-1, -1>> >>]
          /\ get_T(envC4) = envC4.T[<< <<0, 0>>, <<-1, 0>> >>]
    /\ (lastOp.op = "ENV_C4V_ABELIAN" /\ lastOp.withState /\ Cardinality(Sites(state)) > 1) =>
          lastOp.exc # "none"

\* C7 witness: the C4v environment has been initialized by init_env
C7_Witness ==
    /\ lastOp.op = "init_env_c4v"
    /\ lastOp.exc = "none"
    /\ envC4.exists
    /\ DOMAIN envC4.C # {}

C9_UnknownMethod ==
    [][(lastOp'.op \in {"init_env", "init_env_c4v"}) =>
         LET m == lastOp'.method
             absent == m = "<None>" \/ m = ""
             t == ctm_args.ctm_env_init_type
         IN  /\ (~absent /\ m \notin {"CONST", "RANDOM", "CTMRG", "CTMRG_OBC"}) =>
                   /\ lastOp'.exc = "ValueError"
                   /\ envA' = envA
                   /\ envC4' = envC4
             /\ absent =>
                   /\ lastOp'.exc = (CASE t = "CTMRG" -> "none"
                                       [] t \in {"CONST", "RANDOM", "CTMRG_OBC"} ->
                                             "NotImplementedError"
                                       [] OTHER -> "ValueError")
                   /\ (t # "CTMRG" => envA' = envA /\ envC4' = envC4)
                   /\ (t = "CTMRG" /\ lastOp'.op = "init_env" => DOMAIN envA'.C # {})
                   /\ (t = "CTMRG" /\ lastOp'.op = "init_env_c4v" => DOMAIN envC4'.C # {})]_vars

\* C9 witness: init_env has rejected an unknown method on an initialized
\* environment
C9_Witness ==
    /\ lastOp.op = "init_env"
    /\ lastOp.method = "BOGUS"
    /\ lastOp.exc = "ValueError"
    /\ DOMAIN envA.C # {}

----------------------------------------------------------------------------
(* Properties of the RDM engine *)

\* C10: no call of an rdm routine, generic or C4v, with any sym_pos_def,
\* changes env.C, env.T or state.sites (their key sets and the _version of
\* every tensor they hold stay as they were), and every tensor written in
\* place during the call was created inside the call.
C10_RdmNeverMutatesInputs ==
    [][/\ version' = version
       /\ lastRdm'.foreign = {}
       /\ lastRdm'.written \cap DOMAIN version = {}]_vars

\* a generic call with sym_pos_def whose clamped matrix was copied in place,
\* and a C4v call whose shift was added in place
C10_Witness ==
    /\ lastRdm.exc = "none"
    /\ lastRdm.written # {}
    /\ \/ mode = "rdm" /\ lastRdm.routine = "rdm2x2" /\ lastRdm.sym_pos_def
       \/ mode = "rdm_c4v" /\ lastRdm.routine = "rdm1x1"
    /\ \A k \in DOMAIN version : version[k] = 0

Returned_rdm == lastRdm.routine # "none" /\ lastRdm.exc = "none"

\* C11: every call of an rdm routine that returns has passed the contracted
\* tensor through rdm <- 1/2 (rdm + rdm^H), so what it returns is Hermitian,
\* whatever sym_pos_def and operator are.
C11_AlwaysSymmetrized == Returned_rdm => lastRdm.out.herm

\* C12: every call of an rdm routine that returns has divided the result by
\* its trace as the last numerical step, so what it returns has trace 1.
C12_AlwaysTraceNormalized ==
    Returned_rdm =>
        /\ lastRdm.out.normalized
        /\ lastRdm.out.steps # <<>>
        /\ lastRdm.out.steps[Len(lastRdm.out.steps)] = "div"
        /\ lastRdm.out.den = Trace(lastRdm.out.eig)

\* C13: the eigenvalues of the symmetrized matrix are modified only under
\* sym_pos_def=True, and then the negative ones become 0 and the others are
\* kept; otherwise the spectrum reaches the trace normalization unchanged.
C13_PosDefOptIn ==
    Returned_rdm =>
        lastRdm.out.eig = IF lastRdm.sym_pos_def THEN Clamp(lastRdm.eig) ELSE lastRdm.eig

ArgsOf(o) ==
    RdmArgs(o.routine, o.coord, o.sym_pos_def, o.operator, o.force_cpu, o.verbosity,
            o.shares, o.is_cpu, o.eig)

\* C15: a call and the same call with verbosity 0 end the same way: the same
\* exception or none, and the same returned matrix.
C15_VerbosityOnlyDiagnostic ==
    lastRdm.routine # "none" =>
        LET f0 == RdmResult(mode, state, version, [ArgsOf(lastRdm) EXCEPT !.verbosity = 0])
        IN  /\ f0.exc = lastRdm.exc
            /\ f0.m = lastRdm.out

\* the indices s of the patch vertices coord+vecs[i] in order, then the
\* primed ones in the same order
Canonical(st, coord, vecs) ==
    [i \in 1..(2 * Len(vecs)) |->
        IF i <= Len(vecs) THEN Leg("s", vecs[i], Shift(st, coord, vecs[i]))
        ELSE Leg("sp", vecs[i - Len(vecs)], Shift(st, coord, vecs[i - Len(vecs)]))]

PatchOf(r) ==
    CASE r = "rdm2x1" -> << <<0, 0>>, <<1, 0>> >>
      [] r = "rdm1x2" -> << <<0, 0>>, <<0, 1>> >>
      [] r = "rdm2x2" -> << <<0, 0>>, <<1, 0>>, <<0, 1>>, <<1, 1>> >>
      [] OTHER -> <<>>

\* C16: what rdm2x1, rdm1x2 and rdm2x2 of ctm/generic/rdm.py return is indexed
\* by the physical indices of the patch sites in the order coord, coord+(1,0)
\* (rdm2x1), coord, coord+(0,1) (rdm1x2), coord, coord+(1,0), coord+(0,1),
\* coord+(1,1) (rdm2x2), each folded by vertexToSite, followed by the primed
\* indices in the same order.
C16_CanonicalIndexOrder ==
    (mode = "rdm" /\ Returned_rdm /\ lastRdm.routine \in {"rdm2x1", "rdm1x2", "rdm2x2"}) =>
        lastRdm.out.legs = Canonical(state, lastRdm.coord, PatchOf(lastRdm.routine))

\* rdm2x2 returned for a 2x2 unit cell, where the four sites differ
C16_Witness ==
    /\ mode = "rdm"
    /\ Returned_rdm
    /\ lastRdm.routine = "rdm2x2"
    /\ state.lX = 2
    /\ state.lY = 2
    /\ Len(lastRdm.out.legs) = 8
    /\ lastRdm.out.legs[3] = Leg("s", <<0, 1>>, Shift(state, lastRdm.coord, <<0, 1>>))
    /\ lastRdm.out.legs[6] = Leg("sp", <<1, 0>>, Shift(state, lastRdm.coord, <<1, 0>>))

\* C17: a call of a generic rdm routine at any vertex succeeds and reads the
\* same tensors of env.C, env.T and state.sites as the call at the
\* vertexToSite-folded vertex.
C17_AnyCoordinate ==
    (mode = "rdm" /\ lastRdm.routine # "none") =>
        LET f0 == RdmResult(mode, state, version,
                            [ArgsOf(lastRdm) EXCEPT !.coord = vertexToSite(state, lastRdm.coord)])
        IN  /\ lastRdm.exc = "none"
            /\ lastRdm.reads = f0.reads

\* the environment the store is about
Source == EnvAt(store.dicts, store.env)

Snapshot == EnvAt(store.dicts, store.out)

\* C18: to_dense of an environment with tensors returns an environment with
\* chi' = max(chi, largest leg of a densified corner), the key sets of the
\* source, every corner of shape (chi', chi'), every edge with environment
\* legs chi' and its D^2 leg as it was, in the middle for (0,-1) and (1,0),
\* last for (-1,0) and first for (0,1), and each densified tensor in the
\* leading block.
C18_PaddedDensification ==
    (mode = "store" /\ store.op = "to_dense" /\ DOMAIN Source.C # {}) =>
        LET chi1 == MaxOf({Source.chi} \cup
                          {C_torch(Source, state, store.D, cid)[i] :
                              cid \in DOMAIN Source.C, i \in 1..2})
        IN  /\ store.exc = "none"
            /\ Snapshot.chi = chi1
            /\ DOMAIN Snapshot.C = DOMAIN Source.C
            /\ DOMAIN Snapshot.T = DOMAIN Source.T
            /\ \A cid \in DOMAIN Source.C :
                   /\ Snapshot.C[cid].shape = <<chi1, chi1>>
                   /\ Snapshot.C[cid].block = C_torch(Source, state, store.D, cid)
                   /\ Fits(Snapshot.C[cid])
            /\ \A tid \in DOMAIN Source.T :
                   LET d2 == Size(Legs(state, store.D, Source.T[tid]))[dir_to_leg(tid[2]) + 1]
                   IN  /\ Snapshot.T[tid].shape =
                              (CASE tid[2] = <<0, 1>> -> <<d2, chi1, chi1>>
                                 [] tid[2] = <<-1, 0>> -> <<chi1, chi1, d2>>
                                 [] OTHER -> <<chi1, d2, chi1>>)
                       /\ Snapshot.T[tid].block = T_torch(Source, state, store.D, tid)
                       /\ Fits(Snapshot.T[tid])

\* the legs that meet around a vertex: leg cleg of the corner cdir and leg
\* tleg of the edge tdir
Connected ==
    { << <<-1, -1>>, 1, <<0, -1>>, 0 >>, << <<1, -1>>, 0, <<0, -1>>, 2 >>,
      << <<-1, -1>>, 0, <<-1, 0>>, 0 >>, << <<-1, 1>>, 0, <<-1, 0>>, 1 >>,
      << <<1, -1>>, 1, <<1, 0>>, 0 >>, << <<1, 1>>, 0, <<1, 0>>, 2 >>,
      << <<-1, 1>>, 1, <<0, 1>>, 1 >>, << <<1, 1>>, 1, <<0, 1>>, 2 >> }

\* the leg of the on-site tensor pointing in direction dir
SiteLeg(dir) ==
    CASE dir = <<0, -1>> -> 1
      [] dir = <<-1, 0>> -> 2
      [] dir = <<0, 1>> -> 3
      [] OTHER -> 4

FreshlyInitialized ==
    /\ mode = "store"
    /\ store.op = "none"
    /\ DOMAIN Source.C # {}
    /\ \A k \in DOMAIN Source.C : ~IsReplaced(Source.C[k])

\* C19: after init_env(state, env, 'CTMRG') on a state whose neighbours agree
\* on their shared bonds, a corner leg and the edge leg it meets have the
\* same dimension, and the site-facing leg of T[(coord, dir)] has dimension
\* D^2 for D the leg of the on-site tensor at coord pointing in dir.
C19_LegDimensionsAgree ==
    FreshlyInitialized =>
        \A s \in Sites(state) :
            /\ \A c \in Connected :
                   Size(Legs(state, store.D, Source.C[<< s, c[1] >>]))[c[2] + 1]
                   = Size(Legs(state, store.D, Source.T[<< s, c[3] >>]))[c[4] + 1]
            /\ \A dir \in EdgeDirs :
                   Size(Legs(state, store.D, Source.T[<< s, dir >>]))[dir_to_leg(dir) + 1]
                   = LegDim(state, store.D, s, SiteLeg(dir)) * LegDim(state, store.D, s, SiteLeg(dir))

\* an initialized environment of a state with one bond larger than the others
C19_Witness ==
    /\ FreshlyInitialized
    /\ \E s \in Sites(state), dir \in EdgeDirs :
           Size(Legs(state, store.D, Source.T[<< s, dir >>]))[dir_to_leg(dir) + 1] > 1
    /\ \E s \in Sites(state), dir \in EdgeDirs :
           Size(Legs(state, store.D, Source.T[<< s, dir >>]))[dir_to_leg(dir) + 1] = 1

\* C20: clone() and detach() return an environment with the chi and the key
\* sets of the source and leave the source as it was; setting or deleting an
\* entry of one of the two afterwards leaves the other as it was; extend()
\* raises NotImplementedError and changes nothing.
C20_SnapshotSemantics ==
    [][/\ (store.op = "none" /\ store'.op \in {"clone", "detach"}) =>
            /\ store'.exc = "none"
            /\ store'.out.chi = store.env.chi
            /\ DOMAIN EnvAt(store'.dicts, store'.out).C = DOMAIN Source.C
            /\ DOMAIN EnvAt(store'.dicts, store'.out).T = DOMAIN Source.T
            /\ EnvAt(store'.dicts, store'.env) = Source
       /\ (store'.op \in {"set", "del"} /\ store.op \in {"clone", "detach"}) =>
            IF store'.target = "env"
            THEN EnvAt(store'.dicts, store'.out) = Snapshot
            ELSE EnvAt(store'.dicts, store'.env) = Source
       /\ (store.op = "none" /\ store'.op = "extend") =>
            /\ store'.exc = "NotImplementedError"
            /\ store'.dicts = store.dicts
            /\ store'.env = store.env
            /\ store'.out = store.out]_vars

\* the source was updated after clone() and the clone still holds the old entry
C20_Witness ==
    /\ mode = "store"
    /\ store.op = "set"
    /\ store.via = "clone"
    /\ store.target = "env"
    /\ << <<0, 0>>, <<-1, -1>> >> \in DOMAIN Source.C
    /\ IsReplaced(Source.C[<< <<0, 0>>, <<-1, -1>> >>])
    /\ << <<0, 0>>, <<-1, -1>> >> \in DOMAIN Snapshot.C
    /\ ~IsReplaced(Snapshot.C[<< <<0, 0>>, <<-1, -1>> >>])

----------------------------------------------------------------------------
(* Properties of the optimization driver *)

\* the lines obs_fn printed for an epoch outside line search
EpochLines(out) ==
    {i \in 2..Len(out) : Len(out[i]) > 2 /\ out[i][1].word = "" /\ out[i][1].val.q = "epoch"
                          /\ out[i][1].val.st # Fresh0}

\* the numbers of a line after its first token
NumbersOf(l) == [i \in 1..(Len(l) - 1) |-> l[i + 1].val]

\* C21: when main has printed FINAL for the state of the last epoch, the line
\* the test compares with FINAL is the line of the last optimization epoch, and
\* its energy and observables are those of the FINAL line (energy and
\* observables of the state read back, on a new converged environment).
C21_RoundTrip ==
    (/\ mode = "optimize"
     /\ opt.pc = "finished"
     /\ EpochLines(opt.out) # {}
     /\ opt.file = opt.out[MaxOf(EpochLines(opt.out))][2].val.st) =>
        LET k == MaxOf(EpochLines(opt.out))
            t == test_basic_opt_rvb(opt.out)
            final == opt.out[Len(opt.out)]
        IN  /\ t.final_opt_line = k
            /\ t.exc = "none"
            /\ NumbersOf(opt.out[k])
               = << energy_f(opt.file, opt.file) >> \o eval_obs(opt.file, opt.file)
            /\ [i \in 1..Len(final) |-> final[i].val]
               = << energy_f(opt.file, opt.file) >> \o eval_obs(opt.file, opt.file)

----------------------------------------------------------------------------
(* Properties of the pure functions *)

\* lattice_to_site for the tiling of the call, at the coordinate moved by (dx, dy)
SiteAt(dx, dy) ==
    lattice_to_site(call.args.tiling, << call.args.coord[1] + dx, call.args.coord[2] + dy >>)

\* C22: lattice_to_site folds every coordinate into {(0,0), (1,0)}; BIPARTITE
\* gives ((x+y) mod 2, 0), so nearest neighbours fold to different sites and
\* diagonal neighbours to the same; STRIPE gives (x mod 2, 0), so vertical
\* neighbours fold to the same site; folding twice is folding once.
C22_LatticeToSite ==
    (mode = "call" /\ call.fn = "lattice_to_site" /\ call.done /\ call.exc = "none") =>
        LET x == call.args.coord[1]
            y == call.args.coord[2]
        IN  /\ call.ret \in { <<0, 0>>, <<1, 0>> }
            /\ lattice_to_site(call.args.tiling, call.ret) = call.ret
            /\ call.args.tiling = "BIPARTITE" =>
                   /\ call.ret = << (x + y + 2 * MaxCoord) % 2, 0 >>
                   /\ \A n \in { <<1, 0>>, <<-1, 0>>, <<0, 1>>, <<0, -1>> } :
                          SiteAt(n[1], n[2]) # call.ret
                   /\ \A n \in { <<1, 1>>, <<-1, 1>>, <<1, -1>>, <<-1, -1>> } :
                          SiteAt(n[1], n[2]) = call.ret
            /\ call.args.tiling = "STRIPE" =>
                   /\ call.ret = << (x + 2 * MaxCoord) % 2, 0 >>
                   /\ SiteAt(0, 1) = call.ret
                   /\ SiteAt(0, -1) = call.ret

\* a vertex with a negative coordinate was folded onto the second site
C22_Witness ==
    /\ mode = "call"
    /\ call.fn = "lattice_to_site"
    /\ call.done
    /\ call.exc = "none"
    /\ call.args.tiling = "BIPARTITE"
    /\ call.args.coord[1] < 0
    /\ call.args.coord[2] < 0
    /\ call.ret = <<1, 0>>

\* how many entries of s equal v
CountOf(s, v) == Cardinality({i \in 1..Len(s) : s[i] = v})

RECURSIVE SumOf(_)
SumOf(s) == IF s = <<>> THEN 0 ELSE Head(s) + SumOf(Tail(s))

\* the ends of the multiplets of m, as positions of the sorted sequence
CutsOf(m) == {SumOf(SubSeq(m, 1, k)) : k \in 1..Len(m)}

\* C28: compute_multiplets returns the chi singular values in non-increasing
\* order and a list m of positive integers whose partial sums are exactly the
\* positions i with D[i] - D[i+1] > eps (0 appended to D); so sum(m) <= chi,
\* with equality iff the smallest value exceeds eps, and no value within eps of
\* zero is counted in m.
C28_ComputeMultiplets ==
    (mode = "call" /\ call.fn = "compute_multiplets" /\ call.done) =>
        LET S == call.args.S_dense
            eps == call.args.eps
            n == Len(S)
            D == call.ret.D
            m == call.ret.m
            D0 == D \o << 0 >>
        IN  /\ Len(D) = n
            /\ \A v \in 0..MaxSV : CountOf(D, v) = CountOf(S, v)
            /\ \A i \in 1..(n - 1) : D[i] >= D[i + 1]
            /\ \A k \in 1..Len(m) : m[k] >= 1
            /\ CutsOf(m) = {i \in 1..n : D0[i] - D0[i + 1] > eps}
            /\ SumOf(m) <= n
            /\ (SumOf(m) = n) = (D[n] > eps)
            /\ \A i \in 1..n : D[i] <= eps => i > SumOf(m)

\* three values given out of order, the two largest within eps of each other
\* and the smallest within eps of zero: one multiplet of two, the smallest
\* value left out
C28_Witness ==
    /\ mode = "call"
    /\ call.fn = "compute_multiplets"
    /\ call.done
    /\ Len(call.args.S_dense) = 3
    /\ call.args.S_dense[1] < call.args.S_dense[3]
    /\ call.ret.m = << 2 >>
    /\ call.ret.D[3] > 0

----------------------------------------------------------------------------
(* Properties of the initial environment and of the constructors *)

\* the auxiliary leg of an on-site tensor that points toward d
LegToward(d) ==
    CASE d = <<0, -1>> -> 1
      [] d = <<-1, 0>> -> 2
      [] d = <<0, 1>> -> 3
      [] d = <<1, 0>> -> 4

RangeOf(s) == {s[i] : i \in 1..Len(s)}

\* C23: after init_env(state, env, 'CTMRG'), C[(coord, (vx,vy))] is built from
\* the on-site tensor of the vertex coord+(vx,vy) with the physical leg and the
\* legs toward (vx,0) and (0,vy) traced and the two opposite legs open, and
\* T[(coord, d)] from the on-site tensor of coord+d with the physical leg and
\* the leg toward d traced and the other three open; with every open pair
\* fused the corner has rank 2 and the edge rank 3.
C23_ConstructionRule ==
    (lastOp.op = "init_env" /\ lastOp.exc = "none") =>
        \A coord \in Sites(state) :
            /\ \A v \in CornerDirs :
                   LET c == envA.C[<< coord, v >>]
                   IN  /\ c.site = vertexToSite(state, << coord[1] + v[1], coord[2] + v[2] >>)
                       /\ c.traced = {0, LegToward(<< v[1], 0 >>), LegToward(<< 0, v[2] >>)}
                       /\ RangeOf(c.open) = {LegToward(<< 0 - v[1], 0 >>),
                                             LegToward(<< 0, 0 - v[2] >>)}
                       /\ Len(c.open) = 2
            /\ \A d \in EdgeDirs :
                   LET t == envA.T[<< coord, d >>]
                   IN  /\ t.site = vertexToSite(state, << coord[1] + d[1], coord[2] + d[2] >>)
                       /\ t.traced = {0, LegToward(d)}
                       /\ RangeOf(t.open) = {1, 2, 3, 4} \ {LegToward(d)}
                       /\ Len(t.open) = 3

\* an environment initialized on a cell where the neighbour of a vertex is
\* another site
C23_Witness ==
    /\ lastOp.op = "init_env"
    /\ lastOp.exc = "none"
    /\ state.lX > 1
    /\ state.lY > 1
    /\ << <<0, 0>>, <<1, 1>> >> \in DOMAIN envA.C
    /\ envA.C[<< <<0, 0>>, <<1, 1>> >>].site = <<1, 1>>
    /\ envA.T[<< <<0, 0>>, <<-1, 0>> >>].site = << state.lX - 1, 0 >>

\* `if init or init_method:` of the constructors
InitRequested(o) == o.init \/ ~(o.method = PyNone \/ o.method = "")

\* what C27 says of one constructor call o that left the environment e
ConstructorRule(o, e) ==
    /\ (~o.withState /\ ~o.withSettings) => o.exc = "RuntimeError"
    /\ InitRequested(o) =>
          IF o.withState /\ EffectiveMethod(o.method, ctm_args) = "CTMRG"
          THEN /\ o.exc = "none"
               /\ DOMAIN e.C # {}
               /\ DOMAIN e.T # {}
          ELSE o.exc = "RuntimeError"

\* C27 as stated: a constructor with initialization requested populates C and
\* T iff a state is supplied and the effective method is 'CTMRG'; any other
\* combination raises RuntimeError and stores nothing; neither state nor
\* settings raises RuntimeError.
C27_InitOnConstruction ==
    [][(lastOp'.op \in {"ENV_ABELIAN", "ENV_C4V_ABELIAN"}) =>
         /\ ConstructorRule(lastOp', IF lastOp'.op = "ENV_ABELIAN" THEN envA' ELSE envC4')
         /\ (lastOp'.exc # "none" => envA' = envA /\ envC4' = envC4)]_vars

\* C27: the same for ENV_ABELIAN and for ENV_C4V_ABELIAN with a state of one
\* site; ENV_C4V_ABELIAN with a state of several sites raises AssertionError
\* whatever else is passed, and stores nothing.
C27_InitOnConstructionOneSite ==
    [][(lastOp'.op \in {"ENV_ABELIAN", "ENV_C4V_ABELIAN"}) =>
         /\ IF lastOp'.op = "ENV_C4V_ABELIAN" /\ lastOp'.withState
               /\ Cardinality(Sites(state)) # 1
            THEN lastOp'.exc = "AssertionError"
            ELSE ConstructorRule(lastOp',
                                 IF lastOp'.op = "ENV_ABELIAN" THEN envA' ELSE envC4')
         /\ (lastOp'.exc # "none" => envA' = envA /\ envC4' = envC4)]_vars

\* C27 witness: a constructor given a state and the method 'CONST' has raised
\* RuntimeError, and the environment built before is still populated
C27_Witness ==
    /\ lastOp.op = "ENV_ABELIAN"
    /\ lastOp.withState
    /\ lastOp.method = "CONST"
    /\ lastOp.exc = "RuntimeError"
    /\ envA.exists
    /\ DOMAIN envA.C # {}

----------------------------------------------------------------------------
(* Further properties of the convergence functionals *)

\* C24: in the SingularValue monitor, started from history=None, no call
\* reads spec_ers without having assigned it in the same call.
C24_SpecErsAssigned ==
    (monitor = "ctmrg_conv_f.SingularValue" /\ hist0 = None /\ calls >= 1) =>
        lastRet.exc # "UnboundLocalError"

\* the tolerance test of the Partial_energy monitor on the list it returned
PartialTolTest(h) ==
    Len(h) > 1 /\ Abs(h[Len(h)] - h[Len(h) - 1]) < ctm_args.ctm_conv_tol * PartialTolFactor

\* C25: with ctm_conv_tol <= 0.5, whenever the Partial_energy monitor returns
\* True through the tolerance test, the two entries compared are energy
\* estimates, not placeholders of the skipped sweeps; during the skipped sweeps
\* it returns True only because len(history) >= ctm_max_iter.
C25_SkipsFirstSweeps ==
    (/\ monitor = "ctmrg_conv_f.Partial_energy"
     /\ ctm_args.ctm_conv_tol * 2 <= Res
     /\ calls >= 1
     /\ lastRet.kind = "pair"
     /\ lastRet.conv) =>
        LET h == lastRet.hist.items
        IN  /\ PartialTolTest(h) => Len(h) - 1 > SkipLen + 1
            /\ Len(h) <= SkipLen + 1 => Len(h) >= ctm_args.ctm_max_iter

\* C29: from the second call on, the distance ctmrg_conv_rdm2x1 records is the
\* distance between the rdm of this call and the rdm of the previous call; only
\* the first call records +inf.
C29_DistanceFromSecondCall ==
    [][(monitor = "ctmrg_conv_rdm2x1" /\ calls' = calls + 1 /\ calls' >= 2
        /\ lastRet'.kind = "pair") =>
          /\ history'.log[Len(history'.log)] = Abs(lastIn' - history.rdm)
          /\ history'.log[Len(history'.log)] # Inf]_vars

----------------------------------------------------------------------------
(* Further properties of the reduced density matrices *)

\* the boundary tensors of the two-site patch drawn in the docstring of
\* aux_rdm1x2: left column and both edges of coord, both edges, right column
\* of coord+(1,0)
Boundary1x2(st, coord) ==
    LET s0 == vertexToSite(st, coord)
        s1 == Shift(st, coord, <<1, 0>>)
    IN  {StorageOf("C", s0, <<-1, -1>>), StorageOf("T", s0, <<-1, 0>>),
         StorageOf("C", s0, <<-1, 1>>),
         StorageOf("T", s0, <<0, -1>>), StorageOf("T", s0, <<0, 1>>),
         StorageOf("T", s1, <<0, -1>>), StorageOf("T", s1, <<0, 1>>),
         StorageOf("C", s1, <<1, -1>>), StorageOf("T", s1, <<1, 0>>),
         StorageOf("C", s1, <<1, 1>>)}

\* C26: a call of aux_rdm1x2 that returns has read the boundary of the
\* two-site patch: the edges T(0,-1), T(0,1) of coord and of coord+(1,0), the
\* left column of coord, the right column of coord+(1,0).
C26_TwoSiteBoundary ==
    (mode = "rdm" /\ lastRdm.routine = "aux_rdm1x2" /\ lastRdm.exc = "none") =>
        Boundary1x2(state, lastRdm.coord) \subseteq lastRdm.reads

\* C30: the observables obs_fn prints for an epoch are evaluated on the
\* environment passed to that call, which holds the fixed point of the
\* current state left by the most recent loss evaluation.
C30_ObsOnPassedEnv ==
    (mode = "optimize" /\ opt.pc = "observed" /\ ~opt.line_search) =>
        /\ opt.read = opt.passed
        /\ opt.envs[opt.read] = opt.st
        /\ NumbersOf(opt.out[Len(opt.out)])
           = << opt.loss[Len(opt.loss)] >> \o eval_obs(opt.st, opt.envs[opt.passed])

====
